---- MODULE Spec2Model ----
(***************************************************************************)
(* State-machine model of the dashboard's client components:               *)
(*   - the Renewal page        (src/app/dashboard/renew/page.tsx)          *)
(*   - the Bulk Upload modal   (src/unnamed/part_001)                      *)
(* Each component is a React function component: its useState cells are    *)
(* the variables, every event handler / promise continuation is one        *)
(* action, and the passive effects that React runs after a commit are      *)
(* flushed by a forced step (nothing else of the component runs while      *)
(* effects are pending).                                                   *)
(***************************************************************************)
EXTENDS Integers, Sequences, FiniteSets, Bags, TLC

(***************************************************************************)
(* Bounds of the model.                                                    *)
(***************************************************************************)
MaxTicks == 2
MaxInflight == 2
MaxListLen == 3
MaxRequests == 2

(***************************************************************************)
(* Program constants.                                                      *)
(***************************************************************************)
MinRenewalCount == 1
MaxRenewalCount == 20
DefaultRenewalCount == 20
TwentyFourHours == 24 * 60 * 60 * 1000
MsPerDay == 24 * 60 * 60 * 1000
TickMs == 18 * 60 * 60 * 1000

\* localStorage.getItem of a missing key / a state cell holding null.
NoJob == <<>>
NoLogs == [present |-> FALSE, logs |-> <<>>]
StoredLogs(logs) == [present |-> TRUE, logs |-> logs]

\* An optional field of a response body: <<>> when missing, <<v>> when set.
Absent == <<>>
Present(v) == <<v>>

(***************************************************************************)
(* Generic helpers (JavaScript array operations).                          *)
(***************************************************************************)
Range(s) == {s[i] : i \in 1..Len(s)}

Includes(s, x) == \E i \in 1..Len(s) : s[i] = x

RECURSIVE Filter(_, _)
Filter(s, keep) ==
    IF s = <<>> THEN <<>>
    ELSE IF Head(s) \in keep THEN <<Head(s)>> \o Filter(Tail(s), keep)
         ELSE Filter(Tail(s), keep)

RECURSIVE SumRenewed(_)
SumRenewed(s) ==
    IF s = <<>> THEN 0 ELSE Head(s).renewed_count + SumRenewed(Tail(s))

\* Sequences without repetition over a set, up to a length.
NoDupSeqs(S, n) ==
    {s \in UNION {[1..k -> S] : k \in 0..n} :
        \A i, j \in 1..Len(s) : i # j => s[i] # s[j]}

\* The account ids the backend knows, and the lists GET /accounts may return.
AccountIds == {1, 2}

ServerAccounts == <<1, 2>>

AccountLists == NoDupSeqs(AccountIds, Cardinality(AccountIds))

(***************************************************************************)
(* Date <-> ISO string.  Date.prototype.toISOString renders the epoch      *)
(* milliseconds as a calendar date and a time of day; new Date(iso) reads  *)
(* both parts back.                                                        *)
(***************************************************************************)
toISOString(ms) == [date |-> ms \div MsPerDay, time |-> ms % MsPerDay]

\* Mutant: the time of day is dropped when the string is parsed.
NewDate_DateOnly(iso) == iso.date * MsPerDay

NewDate(iso) == iso.date * MsPerDay + iso.time

(***************************************************************************)
(* State.                                                                  *)
(***************************************************************************)
VARIABLES
    \* Renewal page: useState cells (page.tsx 32-46)
    accounts, selectedAccounts, renewalCount, loading, results, totalRenewed,
    activeRenewalJobId,
    \* Renewal page: localStorage keys
    lsActiveRenewalJobId, lsRenewalActivityLogs,
    \* Renewal page: calls in flight, effects due after the last commit
    renewRequests, accountsRequest, pendingEffects,
    \* wall clock (epoch milliseconds), last alert() raised, response last handled
    now, lastAlert, lastResponse,
    \* Bulk Upload modal: the isOpen prop and the useState cells (part_001 41-57)
    isOpen, bulkAccounts, bulkSelectedAccounts, txtFile, imageFiles,
    bulkLoading, uploadResult,
    \* Bulk Upload modal: calls in flight, auto-close timers armed, last toast,
    \* the parent callbacks (onSuccess, onClose) invoked by the last step
    accountFetches, uploads, closeTimers, lastToast, bulkCallbacks,
    \* selectAll applied twice: the list, the selection before and after, the
    \* number of applications and the component whose handler is applied
    saAccounts, saStart, saSelected, saApplied, saComponent,
    \* toggle applied twice: the selection before, after one and after two
    \* applications, the account id, the number of applications, the component
    tgStart, tgId, tgMid, tgSelected, tgApplied, tgComponent,
    \* Import Session modal: the isOpen prop and the useState cells (part_002
    \* 19-34)
    importIsOpen, sessionData, filename, importLoading, error, success,
    importDetails, inputMethod,
    \* Import Session modal: FileReader reads pending, importSession calls in
    \* flight, timers armed, the parent callbacks invoked by the last step
    fileReads, importCalls, importTimers, importCallbacks,
    \* Image proxy: per request received, its position in GET, its url
    \* parameter, the upstream fetches made, the upstream outcome and the
    \* responses returned
    proxy,
    \* What an observer of a run has recorded (no program state); each
    \* observing specification says what it records, the others leave it Absent
    observed

renewVars ==
    <<accounts, selectedAccounts, renewalCount, loading, results, totalRenewed,
      activeRenewalJobId, lsActiveRenewalJobId, lsRenewalActivityLogs,
      renewRequests, accountsRequest, pendingEffects, now, lastAlert,
      lastResponse>>

bulkVars ==
    <<isOpen, bulkAccounts, bulkSelectedAccounts, txtFile, imageFiles,
      bulkLoading, uploadResult, accountFetches, uploads, closeTimers,
      lastToast, bulkCallbacks>>

saVars == <<saAccounts, saStart, saSelected, saApplied, saComponent>>

tgVars == <<tgStart, tgId, tgMid, tgSelected, tgApplied, tgComponent>>

importVars ==
    <<importIsOpen, sessionData, filename, importLoading, error, success,
      importDetails, inputMethod, fileReads, importCalls, importTimers,
      importCallbacks>>

proxyVars == <<proxy>>

obsVars == <<observed>>

vars ==
    <<renewVars, bulkVars, saVars, tgVars, importVars, proxyVars, obsVars>>

(***************************************************************************)
(* Renewal page (src/app/dashboard/renew/page.tsx).                        *)
(***************************************************************************)
RenewalCountInputs ==
    {MinRenewalCount - 1, MaxRenewalCount, MaxRenewalCount + 1}

RenewedCounts == {0, 5}

TotalRenewedFields == {Absent, Present(0), Present(8)}

NoResponse == [handled |-> FALSE, total_renewed |-> Absent, counts |-> <<>>]

\* First render of a freshly loaded page: every cell at its initial value, the
\* job id read from localStorage by the lazy initialiser, mount effects due.
FirstRender ==
    /\ accounts = <<>>
    /\ selectedAccounts = <<>>
    /\ renewalCount = DefaultRenewalCount
    /\ loading = FALSE
    /\ results = <<>>
    /\ totalRenewed = 0
    /\ activeRenewalJobId = lsActiveRenewalJobId
    /\ renewRequests = EmptyBag
    /\ accountsRequest = FALSE
    /\ pendingEffects = {"mount"}
    /\ lastAlert = "none"
    /\ lastResponse = NoResponse

RenewInit ==
    /\ lsActiveRenewalJobId = NoJob
    /\ lsRenewalActivityLogs = NoLogs
    /\ now = 0
    /\ FirstRender

\* The page is (re)loaded: the JavaScript context is discarded with its calls
\* in flight; localStorage survives.
PageLoad ==
    /\ accounts' = <<>>
    /\ selectedAccounts' = <<>>
    /\ renewalCount' = DefaultRenewalCount
    /\ loading' = FALSE
    /\ results' = <<>>
    /\ totalRenewed' = 0
    /\ activeRenewalJobId' = lsActiveRenewalJobId
    /\ renewRequests' = EmptyBag
    /\ accountsRequest' = FALSE
    /\ pendingEffects' = {"mount"}
    /\ lastAlert' = "none"
    /\ lastResponse' = NoResponse
    /\ UNCHANGED <<lsActiveRenewalJobId, lsRenewalActivityLogs, now>>

\* Load effect (49-94): the entries of the stored list, timestamps reparsed,
\* that are younger than 24 hours.
logsWithDates(parsedLogs) ==
    [i \in 1..Len(parsedLogs) |->
        [parsedLogs[i] EXCEPT !.timestamp = NewDate(parsedLogs[i].timestamp)]]

\* Mutant: nothing ever expires.
IsRecent_NoExpiry(log, t) == TRUE

IsRecent(log, t) == log.timestamp > t - TwentyFourHours

recentLogs(parsedLogs, t) ==
    SelectSeq(logsWithDates(parsedLogs), LAMBDA log : IsRecent(log, t))

\* Save effect (96-108): what is written for a results list.
logsWithTimestamp(rs, t) ==
    [i \in 1..Len(rs) |-> [rs[i] EXCEPT !.timestamp = toISOString(t)]]

\* Mutant: the list is written also when it is empty.
SavedLogs_Always(rs, stored, t) == StoredLogs(logsWithTimestamp(rs, t))

SavedLogs(rs, stored, t) ==
    IF Len(rs) > 0 THEN StoredLogs(logsWithTimestamp(rs, t)) ELSE stored

\* Mutant: the effect never treats the stored job id as finished or stale.
CheckClears_Never(job) == FALSE

\* checkRenewalStatus effect (114-146): is the job id cleared?
CheckClears(job) == job # NoJob

\* Effects of the first commit, in declaration order: load logs, save logs
\* (sees the initial empty results), loadAccounts, checkRenewalStatus.
MountEffects ==
    /\ "mount" \in pendingEffects
    /\ IF lsRenewalActivityLogs.present
       THEN /\ results' = recentLogs(lsRenewalActivityLogs.logs, now)
            /\ totalRenewed' =
                  SumRenewed(recentLogs(lsRenewalActivityLogs.logs, now))
       ELSE UNCHANGED <<results, totalRenewed>>
    /\ accountsRequest' = TRUE
    /\ IF CheckClears(activeRenewalJobId)
       THEN /\ lsActiveRenewalJobId' = NoJob
            /\ activeRenewalJobId' = NoJob
            /\ loading' = FALSE
       ELSE UNCHANGED <<lsActiveRenewalJobId, activeRenewalJobId, loading>>
    /\ pendingEffects' =
          (IF lsRenewalActivityLogs.present THEN {"results"} ELSE {})
          \cup (IF CheckClears(activeRenewalJobId) THEN {"job"} ELSE {})
    /\ UNCHANGED <<accounts, selectedAccounts, renewalCount,
                   lsRenewalActivityLogs, renewRequests, now, lastAlert,
                   lastResponse>>

\* Effects of a later commit: save logs when results changed, then
\* checkRenewalStatus when the job id or results changed.
UpdateEffects ==
    /\ pendingEffects # {}
    /\ "mount" \notin pendingEffects
    /\ lsRenewalActivityLogs' =
          IF "results" \in pendingEffects
          THEN SavedLogs(results, lsRenewalActivityLogs, now)
          ELSE lsRenewalActivityLogs
    /\ IF CheckClears(activeRenewalJobId)
       THEN /\ lsActiveRenewalJobId' = NoJob
            /\ activeRenewalJobId' = NoJob
            /\ loading' = FALSE
            /\ pendingEffects' = {"job"}
       ELSE /\ UNCHANGED <<lsActiveRenewalJobId, activeRenewalJobId, loading>>
            /\ pendingEffects' = {}
    /\ UNCHANGED <<accounts, selectedAccounts, renewalCount, results,
                   totalRenewed, renewRequests, accountsRequest, now,
                   lastAlert, lastResponse>>

RunEffects == MountEffects \/ UpdateEffects

Idle == pendingEffects = {}

(***************************************************************************)
(* Renewal page: handlers.                                                 *)
(***************************************************************************)
\* loadAccounts (148-155): the list call resolves or rejects.
LoadAccountsOk ==
    /\ Idle /\ accountsRequest
    /\ accounts' = ServerAccounts
    /\ accountsRequest' = FALSE
    /\ lastAlert' = "none"
    /\ UNCHANGED <<selectedAccounts, renewalCount, loading, results,
                   totalRenewed, activeRenewalJobId, lsActiveRenewalJobId,
                   lsRenewalActivityLogs, renewRequests, pendingEffects, now,
                   lastResponse>>

LoadAccountsFail ==
    /\ Idle /\ accountsRequest
    /\ accountsRequest' = FALSE
    /\ lastAlert' = "none"
    /\ UNCHANGED <<accounts, selectedAccounts, renewalCount, loading, results,
                   totalRenewed, activeRenewalJobId, lsActiveRenewalJobId,
                   lsRenewalActivityLogs, renewRequests, pendingEffects, now,
                   lastResponse>>

\* Mutant: an account already selected is not removed.
toggleAccount_NeverRemoves(prev, accountId) ==
    IF Includes(prev, accountId) THEN prev ELSE Append(prev, accountId)

\* toggleAccount (157-163)
toggleAccount(prev, accountId) ==
    IF Includes(prev, accountId)
    THEN Filter(prev, Range(prev) \ {accountId})
    ELSE Append(prev, accountId)

ToggleAccount ==
    /\ Idle
    /\ \E accountId \in Range(accounts) :
          selectedAccounts' = toggleAccount(selectedAccounts, accountId)
    /\ lastAlert' = "none"
    /\ UNCHANGED <<accounts, renewalCount, loading, results, totalRenewed,
                   activeRenewalJobId, lsActiveRenewalJobId,
                   lsRenewalActivityLogs, renewRequests, accountsRequest,
                   pendingEffects, now, lastResponse>>

\* Mutant: the button never deselects.
selectAll_AlwaysAll(accs, selected) == accs

\* selectAll (165-171)
selectAll(accs, selected) ==
    IF Len(selected) = Len(accs) THEN <<>> ELSE accs

SelectAll ==
    /\ Idle
    /\ selectedAccounts' = selectAll(accounts, selectedAccounts)
    /\ lastAlert' = "none"
    /\ UNCHANGED <<accounts, renewalCount, loading, results, totalRenewed,
                   activeRenewalJobId, lsActiveRenewalJobId,
                   lsRenewalActivityLogs, renewRequests, accountsRequest,
                   pendingEffects, now, lastResponse>>

\* count input onChange (398-400): parseInt(value) || 0
SetRenewalCount ==
    /\ Idle
    /\ \E n \in RenewalCountInputs : renewalCount' = n
    /\ lastAlert' = "none"
    /\ UNCHANGED <<accounts, selectedAccounts, loading, results, totalRenewed,
                   activeRenewalJobId, lsActiveRenewalJobId,
                   lsRenewalActivityLogs, renewRequests, accountsRequest,
                   pendingEffects, now, lastResponse>>

\* "Execute Renewal" button, disabled attribute (457-462)
InputDisablesButton ==
    \/ Len(selectedAccounts) = 0
    \/ renewalCount < MinRenewalCount
    \/ renewalCount > MaxRenewalCount

RenewDisabled == loading \/ InputDisablesButton

\* handleRenewal's own guards (174-182)
NoSelection(selected) == Len(selected) = 0

\* Mutant: the upper limit is not checked.
CountOutOfRange_NoUpper(n) == n < MinRenewalCount

CountOutOfRange(n) == n < MinRenewalCount \/ n > MaxRenewalCount

\* jobId (189-191): renewal_<Date.now()>_<random suffix>
RandomSuffixes == {0, 1}

JobId(t, r) == <<"renewal", t, r>>

\* resetRenewalState (240-244)
resetRenewalState ==
    /\ loading' = FALSE
    /\ activeRenewalJobId' = NoJob
    /\ lsActiveRenewalJobId' = NoJob

JobChanged == IF activeRenewalJobId' # activeRenewalJobId THEN {"job"} ELSE {}

\* handleRenewal up to its await (173-199).  The handler runs when the
\* button is activated while rendered enabled; its early returns are also
\* exercised by invoking it on an input for which the button is disabled.
HandleRenewal ==
    /\ Idle
    /\ ~RenewDisabled \/ InputDisablesButton
    /\ IF NoSelection(selectedAccounts)
       THEN /\ lastAlert' = "select"
            /\ UNCHANGED <<loading, results, totalRenewed, activeRenewalJobId,
                           lsActiveRenewalJobId, renewRequests, pendingEffects,
                           lastResponse>>
       ELSE IF CountOutOfRange(renewalCount)
       THEN /\ lastAlert' = "range"
            /\ UNCHANGED <<loading, results, totalRenewed, activeRenewalJobId,
                           lsActiveRenewalJobId, renewRequests, pendingEffects,
                           lastResponse>>
       ELSE /\ BagCardinality(renewRequests) < MaxInflight
            /\ loading' = TRUE
            /\ results' = <<>>
            /\ totalRenewed' = 0
            /\ \E r \in RandomSuffixes :
                  /\ activeRenewalJobId' = JobId(now, r)
                  /\ lsActiveRenewalJobId' = JobId(now, r)
            /\ renewRequests' = renewRequests (+)
                  SetToBag({[account_ids |-> selectedAccounts,
                             renewal_count |-> renewalCount]})
            /\ pendingEffects' = {"results", "job"}
            /\ lastAlert' = "none"
            /\ lastResponse' = NoResponse
    /\ UNCHANGED <<accounts, selectedAccounts, renewalCount,
                   lsRenewalActivityLogs, accountsRequest, now>>

\* The response body: one outcome per requested account.
ResponseResults(account_ids, counts) ==
    [i \in 1..Len(account_ids) |->
        [account_id |-> account_ids[i], renewed_count |-> counts[i]]]

\* resultsWithTimestamp (202-207)
resultsWithTimestamp(rs, t) ==
    [i \in 1..Len(rs) |->
        [account_id |-> rs[i].account_id,
         renewed_count |-> rs[i].renewed_count,
         timestamp |-> t]]

\* calculatedTotal (212-218): total_renewed || sum of renewed_count
Truthy(field) == field # Absent /\ field[1] # 0

calculatedTotal(total_renewed, rs) ==
    IF Truthy(total_renewed) THEN total_renewed[1] ELSE SumRenewed(rs)

\* handleRenewal after the await resolves (201-222, 235-237)
RenewalSucceeds ==
    /\ Idle
    /\ \E req \in BagToSet(renewRequests) :
       \E counts \in [1..Len(req.account_ids) -> RenewedCounts] :
       \E total_renewed \in TotalRenewedFields :
          /\ results' = resultsWithTimestamp(
                           ResponseResults(req.account_ids, counts), now)
          /\ totalRenewed' = calculatedTotal(
                           total_renewed, ResponseResults(req.account_ids, counts))
          /\ renewRequests' = renewRequests (-) SetToBag({req})
          /\ lastResponse' = [handled |-> TRUE,
                              total_renewed |-> total_renewed,
                              counts |-> counts]
    /\ resetRenewalState
    /\ pendingEffects' = {"results"} \cup JobChanged
    /\ lastAlert' = "none"
    /\ UNCHANGED <<accounts, selectedAccounts, renewalCount,
                   lsRenewalActivityLogs, accountsRequest, now>>

\* handleRenewal after the await rejects (223-237)
RenewalFails ==
    /\ Idle
    /\ \E req \in BagToSet(renewRequests) :
          renewRequests' = renewRequests (-) SetToBag({req})
    /\ lastAlert' = "error"
    /\ resetRenewalState
    /\ pendingEffects' = JobChanged
    /\ UNCHANGED <<accounts, selectedAccounts, renewalCount, results,
                   totalRenewed, lsRenewalActivityLogs, accountsRequest, now,
                   lastResponse>>

\* What clearActivityLogs leaves: no log on display or in storage, no
\* selection, a total of 0.
Cleared ==
    /\ results = <<>>
    /\ selectedAccounts = <<>>
    /\ totalRenewed = 0
    /\ ~lsRenewalActivityLogs.present

\* clearActivityLogs (246-252).  The handler runs from the "Clear Log" button,
\* rendered at 503-511 while a log is on display; it is also invoked a
\* second time in a row, on the state that an invocation leaves.
ClearActivityLogs ==
    /\ Idle
    /\ ~loading
    /\ Len(results) > 0 \/ Cleared
    /\ results' = <<>>
    /\ selectedAccounts' = <<>>
    /\ totalRenewed' = 0
    /\ lsRenewalActivityLogs' = NoLogs
    /\ resetRenewalState
    /\ pendingEffects' = {"results"} \cup JobChanged
    /\ lastAlert' = "none"
    /\ lastResponse' = NoResponse
    /\ UNCHANGED <<accounts, renewalCount, renewRequests, accountsRequest, now>>

\* Time passes.
Tick ==
    /\ Idle
    /\ now < MaxTicks * TickMs
    /\ now' = now + TickMs
    /\ UNCHANGED <<accounts, selectedAccounts, renewalCount, loading, results,
                   totalRenewed, activeRenewalJobId, lsActiveRenewalJobId,
                   lsRenewalActivityLogs, renewRequests, accountsRequest,
                   pendingEffects, lastAlert, lastResponse>>

(***************************************************************************)
(* Bulk Upload modal (src/unnamed/part_001).                               *)
(***************************************************************************)
NoFile == <<>>

NoResult == <<>>

\* onToast(type, message) as last called, and the value before any call.
Toast(type, message) == [type |-> type, message |-> message]

NoToast == Toast("none", "")

\* setTimeout(() => onClose(), 2000) (225-227)
AutoCloseDelayMs == 2000

\* Files the user may pick in the TXT input and in the image input.
TxtPicks == {[name |-> "posts", ext |-> "txt"], [name |-> "posts", ext |-> "csv"]}

PngA == [name |-> "a", type |-> <<"image", "png">>]

JpegB == [name |-> "b", type |-> <<"image", "jpeg">>]

PdfC == [name |-> "c", type |-> <<"application", "pdf">>]

\* Selections of the image input: none, one or two images, in both orders,
\* and a PDF alone, before an image and after an image.
ImagePicks ==
    {<<>>, <<PngA>>, <<PdfC>>, <<PngA, JpegB>>, <<JpegB, PngA>>,
     <<PngA, PdfC>>, <<PdfC, PngA>>}

\* State of the modal when the parent first renders it (closed).
BulkInit ==
    /\ isOpen = FALSE
    /\ bulkAccounts = <<>>
    /\ bulkSelectedAccounts = <<>>
    /\ txtFile = NoFile
    /\ imageFiles = <<>>
    /\ bulkLoading = FALSE
    /\ uploadResult = NoResult
    /\ accountFetches = 0
    /\ uploads = EmptyBag
    /\ closeTimers = EmptyBag
    /\ lastToast = NoToast
    /\ bulkCallbacks = <<>>

\* The parent opens the modal; the [isOpen] effect calls fetchAccounts (59-64).
BulkOpen ==
    /\ ~isOpen
    /\ accountFetches < MaxInflight
    /\ isOpen' = TRUE
    /\ accountFetches' = accountFetches + 1
    /\ lastToast' = NoToast
    /\ bulkCallbacks' = <<>>
    /\ UNCHANGED <<bulkAccounts, bulkSelectedAccounts, txtFile, imageFiles,
                   bulkLoading, uploadResult, uploads, closeTimers>>

\* fetchAccounts (66-74): the list call resolves or rejects.
FetchAccountsOk ==
    /\ accountFetches > 0
    /\ \E list \in AccountLists : bulkAccounts' = list
    /\ accountFetches' = accountFetches - 1
    /\ lastToast' = NoToast
    /\ bulkCallbacks' = <<>>
    /\ UNCHANGED <<isOpen, bulkSelectedAccounts, txtFile, imageFiles,
                   bulkLoading, uploadResult, uploads, closeTimers>>

FetchAccountsFail ==
    /\ accountFetches > 0
    /\ accountFetches' = accountFetches - 1
    /\ lastToast' = Toast("error", "Failed to load accounts")
    /\ bulkCallbacks' = <<>>
    /\ UNCHANGED <<isOpen, bulkAccounts, bulkSelectedAccounts, txtFile,
                   imageFiles, bulkLoading, uploadResult, uploads, closeTimers>>

\* handleFileChange (76-86)
HandleFileChange ==
    /\ isOpen
    /\ \E file \in TxtPicks :
          IF file.ext # "txt"
          THEN /\ lastToast' = Toast("error", "Please select a TXT file")
               /\ UNCHANGED <<txtFile, uploadResult>>
          ELSE /\ txtFile' = <<file>>
               /\ uploadResult' = NoResult
               /\ lastToast' = NoToast
    /\ bulkCallbacks' = <<>>
    /\ UNCHANGED <<isOpen, bulkAccounts, bulkSelectedAccounts, imageFiles,
                   bulkLoading, accountFetches, uploads, closeTimers>>

\* handleImageFilesChange (88-102)
\* Mutant: no file is dropped.
validImages_KeepsAll(files) == files

\* file.type.startsWith("image/") (92-94); a MIME type is the pair of its
\* parts before and after the first "/".
validImages(files) ==
    SelectSeq(files, LAMBDA file : file.type[1] = "image")

\* The handler applied to the files of one selection event.
ImageFilesChosen(files) ==
    /\ isOpen
    /\ imageFiles' = validImages(files)
    /\ lastToast' = IF Len(validImages(files)) # Len(files)
                    THEN Toast("error", "Some files are not valid images")
                    ELSE NoToast
    /\ uploadResult' = NoResult
    /\ bulkCallbacks' = <<>>
    /\ UNCHANGED <<isOpen, bulkAccounts, bulkSelectedAccounts, txtFile,
                   bulkLoading, accountFetches, uploads, closeTimers>>

HandleImageFilesChange == \E files \in ImagePicks : ImageFilesChosen(files)

\* handleAccountToggle (104-112)
handleAccountToggle(prev, accountId) ==
    IF Includes(prev, accountId)
    THEN Filter(prev, Range(prev) \ {accountId})
    ELSE Append(prev, accountId)

HandleAccountToggle ==
    /\ isOpen
    /\ \E accountId \in Range(bulkAccounts) :
          bulkSelectedAccounts' =
             handleAccountToggle(bulkSelectedAccounts, accountId)
    /\ lastToast' = NoToast
    /\ bulkCallbacks' = <<>>
    /\ UNCHANGED <<isOpen, bulkAccounts, txtFile, imageFiles, bulkLoading,
                   uploadResult, accountFetches, uploads, closeTimers>>

\* handleSelectAllAccounts (114-120); the button is rendered at 336-346
handleSelectAllAccounts(accs, selected) ==
    IF Len(selected) = Len(accs) THEN <<>> ELSE accs

HandleSelectAllAccounts ==
    /\ isOpen
    /\ Len(bulkAccounts) > 0
    /\ bulkSelectedAccounts' =
          handleSelectAllAccounts(bulkAccounts, bulkSelectedAccounts)
    /\ lastToast' = NoToast
    /\ bulkCallbacks' = <<>>
    /\ UNCHANGED <<isOpen, bulkAccounts, txtFile, imageFiles, bulkLoading,
                   uploadResult, accountFetches, uploads, closeTimers>>

\* submit Button disabled (608)
BulkSubmitDisabled == bulkLoading \/ txtFile = NoFile

\* Mutant: an empty selection is not rejected.
NoAccountSelected_Never(selected) == FALSE

\* handleSubmit's second guard (162)
NoAccountSelected(selected) == Len(selected) = 0

\* FormData.append(name, value): one more entry at the end of the entry list.
\* A value is a string part or a file part.
append(entries, name, value) == Append(entries, [name |-> name, value |-> value])

\* Mutant: only the first selected account is appended.
accountEntries_FirstOnly(entries, selected) ==
    IF selected = <<>>
    THEN entries
    ELSE append(entries, "account_ids[]", [string |-> ToString(selected[1])])

\* selectedAccounts.forEach(accountId => formData.append("account_ids[]",
\* accountId.toString())) (175-178)
RECURSIVE accountEntries(_, _)
accountEntries(entries, selected) ==
    IF selected = <<>>
    THEN entries
    ELSE accountEntries(
             append(entries, "account_ids[]", [string |-> ToString(Head(selected))]),
             Tail(selected))

\* imageFiles.forEach(imageFile => formData.append("images", imageFile))
\* (180-183)
RECURSIVE imageEntries(_, _)
imageEntries(entries, files) ==
    IF files = <<>>
    THEN entries
    ELSE imageEntries(append(entries, "images", [file |-> Head(files)]),
                      Tail(files))

\* FormData built by handleSubmit (172-183): the entry list of the multipart
\* body, in the order of the append calls.
formData ==
    imageEntries(
        accountEntries(append(<<>>, "txt_file", [file |-> txtFile[1]]),
                       bulkSelectedAccounts),
        imageFiles)

\* handleSubmit up to its await (154-198).  The handler runs when the form is
\* submitted through the enabled button; its first early return is also
\* exercised by invoking it with no file, for which the button is disabled.
BulkHandleSubmit ==
    /\ isOpen
    /\ ~BulkSubmitDisabled \/ txtFile = NoFile
    /\ IF txtFile = NoFile
       THEN /\ lastToast' = Toast("error", "Please select a TXT file")
            /\ UNCHANGED <<bulkLoading, uploadResult, uploads>>
       ELSE IF NoAccountSelected(bulkSelectedAccounts)
       THEN /\ lastToast' = Toast("error", "Please select at least one account")
            /\ UNCHANGED <<bulkLoading, uploadResult, uploads>>
       ELSE /\ bulkLoading' = TRUE
            /\ uploadResult' = NoResult
            /\ uploads' = uploads (+) SetToBag({formData})
            /\ lastToast' = NoToast
    /\ bulkCallbacks' = <<>>
    /\ UNCHANGED <<isOpen, bulkAccounts, bulkSelectedAccounts, txtFile,
                   imageFiles, accountFetches, closeTimers>>

\* The message of a 2xx response body (data.message).
UploadMessages == {"3 posts created"}

\* Mutant: the reset of the form leaves the images in place.
resetForm_KeepsImages ==
    /\ txtFile' = NoFile
    /\ bulkSelectedAccounts' = <<>>
    /\ UNCHANGED imageFiles

\* "Reset form" (216-219)
resetForm ==
    /\ txtFile' = NoFile
    /\ imageFiles' = <<>>
    /\ bulkSelectedAccounts' = <<>>

\* handleSubmit after a 2xx response (200-227, 236-238): the result panel is
\* set, the form is reset, onSuccess is called and the auto-close timer is
\* armed.
UploadSucceeds ==
    /\ BagCardinality(closeTimers) < MaxInflight
    /\ \E req \in BagToSet(uploads) : uploads' = uploads (-) SetToBag({req})
    /\ \E message \in UploadMessages :
          /\ uploadResult' = <<[success |-> TRUE, message |-> message]>>
          /\ lastToast' = Toast("success", message)
    /\ resetForm
    /\ bulkCallbacks' = <<"onSuccess">>
    /\ closeTimers' = closeTimers (+) SetToBag({[delay |-> AutoCloseDelayMs]})
    /\ bulkLoading' = FALSE
    /\ UNCHANGED <<isOpen, bulkAccounts, accountFetches>>

\* The ways the upload fails: a non-2xx response whose body may carry an
\* error field, or an exception thrown by fetch / response.json().
UploadFailures ==
    {[thrown |-> Absent, error |-> e] :
        e \in {Absent, Present(""), Present("quota exceeded")}}
    \cup {[thrown |-> Present(m), error |-> Absent] : m \in {"", "Failed to fetch"}}

\* value || fallback on an optional string
OrElse(field, fallback) ==
    IF field # Absent /\ field[1] # "" THEN field[1] ELSE fallback

\* The message of the Error that reaches the catch block (188-204)
caughtMessage(failure) ==
    IF failure.thrown # Absent
    THEN failure.thrown[1]
    ELSE OrElse(failure.error, "Upload failed")

\* errorMessage (230)
errorMessage(failure) ==
    OrElse(Present(caughtMessage(failure)), "Failed to upload TXT file")

\* Mutant: the inline panel shows a fixed text.
failureResult_FixedText(message) ==
    [success |-> FALSE, message |-> "Upload failed"]

\* setUploadResult({success: false, message: errorMessage}) (231-234)
failureResult(message) == [success |-> FALSE, message |-> message]

\* handleSubmit after a non-2xx response or an exception (202-204, 228-238)
UploadFails ==
    /\ \E req \in BagToSet(uploads) : uploads' = uploads (-) SetToBag({req})
    /\ \E failure \in UploadFailures :
          /\ uploadResult' = <<failureResult(errorMessage(failure))>>
          /\ lastToast' = Toast("error", errorMessage(failure))
    /\ bulkCallbacks' = <<>>
    /\ bulkLoading' = FALSE
    /\ UNCHANGED <<isOpen, bulkAccounts, bulkSelectedAccounts, txtFile,
                   imageFiles, accountFetches, closeTimers>>

\* The auto-close timer fires (225-227): onClose(), the parent closes the modal.
AutoClose ==
    /\ \E timer \in BagToSet(closeTimers) :
          closeTimers' = closeTimers (-) SetToBag({timer})
    /\ isOpen' = FALSE
    /\ bulkCallbacks' = <<"onClose">>
    /\ lastToast' = NoToast
    /\ UNCHANGED <<bulkAccounts, bulkSelectedAccounts, txtFile, imageFiles,
                   bulkLoading, uploadResult, accountFetches, uploads>>

\* handleClose (241-246), from the header button (259)
BulkHandleClose ==
    /\ isOpen
    /\ txtFile' = NoFile
    /\ bulkSelectedAccounts' = <<>>
    /\ uploadResult' = NoResult
    /\ isOpen' = FALSE
    /\ bulkCallbacks' = <<"onClose">>
    /\ lastToast' = NoToast
    /\ UNCHANGED <<bulkAccounts, imageFiles, bulkLoading, accountFetches,
                   uploads, closeTimers>>

(***************************************************************************)
(* Import Session modal (src/unnamed/part_002).                            *)
(*                                                                         *)
(* A text (session data, a filename, a file name) is a sequence of         *)
(* characters; a file name keeps its extension as one element.             *)
(***************************************************************************)
Space == " "

\* String.prototype.trim
RECURSIVE TrimLeft(_)
TrimLeft(cs) ==
    IF cs # <<>> /\ Head(cs) = Space THEN TrimLeft(Tail(cs)) ELSE cs

RECURSIVE TrimRight(_)
TrimRight(cs) ==
    IF cs # <<>> /\ cs[Len(cs)] = Space
    THEN TrimRight(SubSeq(cs, 1, Len(cs) - 1))
    ELSE cs

Trim(cs) == TrimRight(TrimLeft(cs))

\* !value.trim()
Blank(cs) == Trim(cs) = <<>>

\* JSON.parse, on the texts of this model: the number 1, the empty array and
\* arrays of one value, with optional white space around a value.  The
\* result is the value parsed, or a failure (JSON.parse throws).
NoValue == [kind |-> "none", elems |-> <<>>]

ParseFailure == [ok |-> FALSE, value |-> NoValue]

RECURSIVE ParseValue(_)
ParseValue(cs) ==
    IF cs = <<"1">>
    THEN [ok |-> TRUE, value |-> [kind |-> "number", elems |-> <<>>]]
    ELSE IF Len(cs) >= 2 /\ cs[1] = "[" /\ cs[Len(cs)] = "]"
    THEN LET inner == Trim(SubSeq(cs, 2, Len(cs) - 1))
         IN  IF inner = <<>>
             THEN [ok |-> TRUE, value |-> [kind |-> "array", elems |-> <<>>]]
             ELSE IF ParseValue(inner).ok
             THEN [ok |-> TRUE,
                   value |-> [kind |-> "array",
                              elems |-> <<ParseValue(inner).value>>]]
             ELSE ParseFailure
    ELSE ParseFailure

\* Mutant: every text is accepted.
JSONParse_AcceptsAll(text) ==
    [ok |-> TRUE, value |-> [kind |-> "array", elems |-> <<>>]]

JSONParse(text) == ParseValue(Trim(text))

\* What the user may paste or type into the textarea, type into the
\* filename input, and pick in the file input.
PastedTexts ==
    {<<>>, <<" ">>, <<"{">>, <<"[", "1", "]">>, <<" ", "1", " ">>}

TypedFilenames == {<<>>, <<" ">>, <<"a">>}

FilePicks ==
    {[name |-> <<"s", ".json">>, content |-> <<"[", "]">>],
     [name |-> <<"t", ".json">>, content |-> <<"[", "{">>],
     [name |-> <<"u", ".txt">>, content |-> <<"1">>]}

\* Messages set by setError.
NoError == ""

NoDetails == <<>>

\* State of the modal when the parent first renders it (closed).
ImportInit ==
    /\ importIsOpen = FALSE
    /\ sessionData = <<>>
    /\ filename = <<>>
    /\ importLoading = FALSE
    /\ error = NoError
    /\ success = FALSE
    /\ importDetails = NoDetails
    /\ inputMethod = "upload"
    /\ fileReads = EmptyBag
    /\ importCalls = EmptyBag
    /\ importTimers = EmptyBag
    /\ importCallbacks = <<>>

\* The parent opens the modal.
ImportOpen ==
    /\ ~importIsOpen
    /\ importIsOpen' = TRUE
    /\ importCallbacks' = <<>>
    /\ UNCHANGED <<sessionData, filename, importLoading, error, success,
                   importDetails, inputMethod, fileReads, importCalls,
                   importTimers>>

\* The "Upload File" / "Paste JSON" tabs (259, 271)
SetInputMethod ==
    /\ importIsOpen
    /\ \E method \in {"upload", "paste"} : inputMethod' = method
    /\ importCallbacks' = <<>>
    /\ UNCHANGED <<importIsOpen, sessionData, filename, importLoading, error,
                   success, importDetails, fileReads, importCalls,
                   importTimers>>

\* file.name.endsWith(".json") and file.name.replace(".json", "") (41, 47)
EndsWithJson(name) == name # <<>> /\ name[Len(name)] = ".json"

RECURSIVE nameWithoutExt(_)
nameWithoutExt(name) ==
    IF name = <<>> THEN <<>>
    ELSE IF Head(name) = ".json" THEN Tail(name)
    ELSE <<Head(name)>> \o nameWithoutExt(Tail(name))

\* handleFileUpload (36-65) up to reader.readAsText; the file input is
\* rendered in the upload tab (285-303).
FileChosen(file) ==
    /\ importIsOpen
    /\ inputMethod = "upload"
    /\ IF ~EndsWithJson(file.name)
       THEN /\ error' = "Please upload a JSON file"
            /\ UNCHANGED <<filename, fileReads>>
       ELSE /\ BagCardinality(fileReads) < MaxInflight
            /\ filename' = nameWithoutExt(file.name)
            /\ fileReads' = fileReads (+) SetToBag({file.content})
            /\ UNCHANGED error
    /\ importCallbacks' = <<>>
    /\ UNCHANGED <<importIsOpen, sessionData, importLoading, success,
                   importDetails, inputMethod, importCalls, importTimers>>

HandleFileUpload == \E file \in FilePicks : FileChosen(file)

\* reader.onload (52-63)
FileReadCompletes ==
    /\ \E content \in BagToSet(fileReads) :
          /\ fileReads' = fileReads (-) SetToBag({content})
          /\ IF JSONParse(content).ok
             THEN /\ sessionData' = content
                  /\ error' = NoError
             ELSE /\ error' = "Invalid JSON file format"
                  /\ sessionData' = <<>>
    /\ importCallbacks' = <<>>
    /\ UNCHANGED <<importIsOpen, filename, importLoading, success,
                   importDetails, inputMethod, importCalls, importTimers>>

\* Mutant: the textarea never reports a text.
liveError_Never(value) == NoError

\* The error the textarea's onChange sets for a value (318-332)
liveError(value) ==
    IF Blank(value) THEN NoError
    ELSE IF JSONParse(value).ok THEN NoError
    ELSE "Invalid JSON format. Please check your pasted data."

\* textarea onChange (314-333); the textarea is rendered in the paste tab.
TextareaChange ==
    /\ importIsOpen
    /\ inputMethod = "paste"
    /\ \E value \in PastedTexts :
          /\ sessionData' = value
          /\ error' = liveError(value)
    /\ importCallbacks' = <<>>
    /\ UNCHANGED <<importIsOpen, filename, importLoading, success,
                   importDetails, inputMethod, fileReads, importCalls,
                   importTimers>>

\* filename input onChange (356)
FilenameChange ==
    /\ importIsOpen
    /\ \E value \in TypedFilenames : filename' = value
    /\ importCallbacks' = <<>>
    /\ UNCHANGED <<importIsOpen, sessionData, importLoading, error, success,
                   importDetails, inputMethod, fileReads, importCalls,
                   importTimers>>

\* submit Button disabled (427)
ImportSubmitDisabled ==
    importLoading \/ Blank(sessionData) \/ Blank(filename)

\* handleSubmit up to its await (67-103).  The handler runs when the form is
\* submitted through the enabled button; its two early returns are also
\* exercised by invoking it on blank inputs, for which the button is
\* disabled.  It never runs while a call is pending.
ImportHandleSubmit ==
    /\ importIsOpen
    /\ ~importLoading
    /\ ~ImportSubmitDisabled \/ Blank(sessionData) \/ Blank(filename)
    /\ success' = FALSE
    /\ importDetails' = NoDetails
    /\ IF Blank(sessionData)
       THEN /\ error' = "Please provide session data"
            /\ UNCHANGED <<importLoading, importCalls>>
       ELSE IF Blank(filename)
       THEN /\ error' = "Please provide a filename"
            /\ UNCHANGED <<importLoading, importCalls>>
       ELSE IF ~JSONParse(sessionData).ok
       THEN /\ error' = "Invalid JSON format. Please paste valid JSON data from your browser session export."
            /\ importLoading' = FALSE
            /\ UNCHANGED importCalls
       ELSE /\ BagCardinality(importCalls) < MaxInflight
            /\ error' = NoError
            /\ importLoading' = TRUE
            /\ importCalls' = importCalls (+)
                  SetToBag({[session_data |-> JSONParse(sessionData).value,
                             filename |-> filename]})
    /\ importCallbacks' = <<>>
    /\ UNCHANGED <<importIsOpen, sessionData, filename, inputMethod,
                   fileReads, importTimers>>

\* setTimeout delays of the success path (121) and of the failure path (134)
SuccessDelayMs == 1500

FailureDelayMs == 3000

\* response.data.details of a 2xx response (the fields the handler reads)
ImportDetails ==
    {[email |-> "a@x.io", account_created |-> c] : c \in BOOLEAN}

\* Mutant: the message always announces a new account.
successMsg_AlwaysCreated(details) ==
    <<"Session imported successfully for ", details.email, "! ",
      "New account created.">>

\* successMsg (109-115), as the sequence of the template's parts
successMsg(details) ==
    <<"Session imported successfully for ", details.email, "! ",
      IF details.account_created
      THEN "New account created."
      ELSE "Account updated.">>

\* handleSubmit after the call resolves (105-121, 140-142)
ImportSucceeds ==
    /\ BagCardinality(importTimers) < MaxInflight
    /\ \E req \in BagToSet(importCalls) :
          importCalls' = importCalls (-) SetToBag({req})
    /\ \E details \in ImportDetails :
          /\ importDetails' = <<details>>
          /\ importTimers' = importTimers (+)
                SetToBag({[delay |-> SuccessDelayMs,
                           message |-> successMsg(details),
                           type |-> "success"]})
    /\ success' = TRUE
    /\ importLoading' = FALSE
    /\ importCallbacks' = <<>>
    /\ UNCHANGED <<importIsOpen, sessionData, filename, error, inputMethod,
                   fileReads>>

\* error.response?.data?.error of a rejected call: missing for a network
\* error, else the body's error field.
BackendErrors == {Absent, Present(""), Present("Invalid session file")}

\* Mutant: no fallback when the response carries no error text.
errorMsg_NoFallback(backendError) ==
    IF backendError = Absent THEN "" ELSE backendError[1]

\* errorMsg (126-127)
errorMsg(backendError) == OrElse(backendError, "Failed to import session")

\* handleSubmit after the call rejects (122-142)
ImportFails ==
    /\ BagCardinality(importTimers) < MaxInflight
    /\ \E req \in BagToSet(importCalls) :
          importCalls' = importCalls (-) SetToBag({req})
    /\ \E backendError \in BackendErrors :
          /\ error' = errorMsg(backendError)
          /\ importTimers' = importTimers (+)
                SetToBag({[delay |-> FailureDelayMs,
                           message |-> <<errorMsg(backendError)>>,
                           type |-> "error"]})
    /\ importLoading' = FALSE
    /\ importCallbacks' = <<>>
    /\ UNCHANGED <<importIsOpen, sessionData, filename, success,
                   importDetails, inputMethod, fileReads>>

\* Mutant: closing keeps what the user entered.
importHandleClose_KeepsInput ==
    /\ UNCHANGED <<sessionData, filename>>
    /\ error' = NoError
    /\ success' = FALSE
    /\ importDetails' = NoDetails
    /\ inputMethod' = "upload"
    /\ importIsOpen' = FALSE

\* handleClose (145-153): the form is reset and onClose() is called, on
\* which the parent closes the modal.
importHandleClose ==
    /\ sessionData' = <<>>
    /\ filename' = <<>>
    /\ error' = NoError
    /\ success' = FALSE
    /\ importDetails' = NoDetails
    /\ inputMethod' = "upload"
    /\ importIsOpen' = FALSE

OnClose == [fn |-> "onClose", message |-> <<>>, type |-> ""]

OnSuccess(message, type) ==
    [fn |-> "onSuccess", message |-> message, type |-> type]

\* A timer armed by handleSubmit fires (118-121, 131-134): handleClose(),
\* then onSuccess(message, type).
ImportTimerFires ==
    /\ \E timer \in BagToSet(importTimers) :
          /\ importTimers' = importTimers (-) SetToBag({timer})
          /\ importCallbacks' =
                <<OnClose, OnSuccess(timer.message, timer.type)>>
    /\ importHandleClose
    /\ UNCHANGED <<importLoading, fileReads, importCalls>>

\* handleClose from the header button (170)
ImportHandleClose ==
    /\ importIsOpen
    /\ importHandleClose
    /\ importCallbacks' = <<OnClose>>
    /\ UNCHANGED <<importLoading, fileReads, importCalls, importTimers>>

(***************************************************************************)
(* Image proxy route (src/app/api/image-proxy/route.ts).                   *)
(***************************************************************************)
\* searchParams.get("url"): missing, empty, or an image URL.
ProxyUrls == {Absent, Present(""), Present("https://img.example/a.png")}

\* What the upstream fetch may do: reject, or resolve with a status, an
\* optional content-type header and a body whose read may fail.
NoUpstream ==
    [thrown |-> FALSE, status |-> 0, contentType |-> Absent, body |-> "",
     bodyFails |-> FALSE]

FetchRejected == [NoUpstream EXCEPT !.thrown = TRUE]

UpstreamResponses ==
    [thrown : {FALSE},
     status : {200, 404, 503},
     contentType : {Absent, Present(""), Present("image/png")},
     body : {"bytes-1", "bytes-2"},
     bodyFails : BOOLEAN]

\* response.ok
Ok(status) == status \in 200..299

\* new NextResponse(body, {status, headers})
NextResponse(body, status, contentType, cacheControl) ==
    [body |-> body, status |-> status, contentType |-> contentType,
     cacheControl |-> cacheControl]

\* Mutant: the upstream content-type is not relayed.
proxyContentType_Fixed(header) == "image/jpeg"

\* contentType (26)
proxyContentType(header) == OrElse(header, "image/jpeg")

ProxyInit ==
    proxy = [r \in 1..MaxRequests |->
                [stage |-> "none", url |-> Absent, fetches |-> 0,
                 upstream |-> NoUpstream, responses |-> <<>>]]

\* GET up to its await (3-17): without a url the 400 is returned, else the
\* upstream fetch is issued.
ProxyGET ==
    \E r \in 1..MaxRequests : \E url \in ProxyUrls :
       /\ proxy[r].stage = "none"
       /\ proxy' =
             [proxy EXCEPT ![r] =
                IF url = Absent \/ url[1] = ""
                THEN [@ EXCEPT !.stage = "done", !.url = url,
                        !.responses = Append(@,
                           NextResponse("Missing image URL", 400,
                                        Absent, Absent))]
                ELSE [@ EXCEPT !.stage = "fetching", !.url = url,
                        !.fetches = @ + 1]]

\* GET after the fetch resolves (19-35); a failing body read is caught
\* (36-39).
ProxyFetchResolves ==
    \E r \in 1..MaxRequests : \E up \in UpstreamResponses :
       /\ proxy[r].stage = "fetching"
       /\ proxy' =
             [proxy EXCEPT ![r] =
                [@ EXCEPT !.stage = "done", !.upstream = up,
                   !.responses = Append(@,
                      IF ~Ok(up.status)
                      THEN NextResponse("Failed to fetch image", up.status,
                                        Absent, Absent)
                      ELSE IF up.bodyFails
                      THEN NextResponse("Failed to load image", 500,
                                        Absent, Absent)
                      ELSE NextResponse(up.body, 200,
                              Present(proxyContentType(up.contentType)),
                              Present("public, max-age=31536000, immutable")))]]

\* GET after the fetch rejects (36-39)
ProxyFetchRejects ==
    \E r \in 1..MaxRequests :
       /\ proxy[r].stage = "fetching"
       /\ proxy' =
             [proxy EXCEPT ![r] =
                [@ EXCEPT !.stage = "done", !.upstream = FetchRejected,
                   !.responses = Append(@,
                      NextResponse("Failed to load image", 500,
                                   Absent, Absent))]]

(***************************************************************************)
(* selectAll / handleSelectAllAccounts applied twice in a row to an        *)
(* account list and a selection drawn from it.                             *)
(***************************************************************************)
SelectAllInit ==
    /\ saAccounts \in NoDupSeqs(1..MaxListLen, MaxListLen)
    /\ saStart \in NoDupSeqs(Range(saAccounts), Len(saAccounts))
    /\ saSelected = saStart
    /\ saApplied = 0
    /\ saComponent \in {"renew", "bulk"}

ApplyRenewSelectAll ==
    /\ saComponent = "renew"
    /\ saApplied < 2
    /\ saSelected' = selectAll(saAccounts, saSelected)
    /\ saApplied' = saApplied + 1
    /\ UNCHANGED <<saAccounts, saStart, saComponent>>

ApplyBulkSelectAll ==
    /\ saComponent = "bulk"
    /\ saApplied < 2
    /\ Len(saAccounts) > 0
    /\ saSelected' = handleSelectAllAccounts(saAccounts, saSelected)
    /\ saApplied' = saApplied + 1
    /\ UNCHANGED <<saAccounts, saStart, saComponent>>

SelectAllIdle ==
    /\ saAccounts = <<>>
    /\ saStart = <<>>
    /\ saSelected = <<>>
    /\ saApplied = 0
    /\ saComponent = "renew"

(***************************************************************************)
(* toggleAccount / handleAccountToggle applied twice in a row, with the    *)
(* same account id, to a selection.                                        *)
(***************************************************************************)
ToggleInit ==
    /\ tgStart \in NoDupSeqs(1..MaxListLen, MaxListLen)
    /\ tgId \in 1..MaxListLen
    /\ tgMid = tgStart
    /\ tgSelected = tgStart
    /\ tgApplied = 0
    /\ tgComponent \in {"renew", "bulk"}

ApplyRenewToggle ==
    /\ tgComponent = "renew"
    /\ tgApplied < 2
    /\ tgSelected' = toggleAccount(tgSelected, tgId)
    /\ tgMid' = IF tgApplied = 0 THEN tgSelected' ELSE tgMid
    /\ tgApplied' = tgApplied + 1
    /\ UNCHANGED <<tgStart, tgId, tgComponent>>

ApplyBulkToggle ==
    /\ tgComponent = "bulk"
    /\ tgApplied < 2
    /\ tgSelected' = handleAccountToggle(tgSelected, tgId)
    /\ tgMid' = IF tgApplied = 0 THEN tgSelected' ELSE tgMid
    /\ tgApplied' = tgApplied + 1
    /\ UNCHANGED <<tgStart, tgId, tgComponent>>

ToggleIdle ==
    /\ tgStart = <<>>
    /\ tgId = 1
    /\ tgMid = <<>>
    /\ tgSelected = <<>>
    /\ tgApplied = 0
    /\ tgComponent = "renew"

(***************************************************************************)
(* Specifications: one per component.                                      *)
(***************************************************************************)
\* Observers at rest.
ObsInit == observed = Absent

RenewNext ==
    \/ PageLoad /\ UNCHANGED <<bulkVars, saVars, tgVars, importVars, proxyVars, obsVars>>
    \/ MountEffects /\ UNCHANGED <<bulkVars, saVars, tgVars, importVars, proxyVars, obsVars>>
    \/ UpdateEffects /\ UNCHANGED <<bulkVars, saVars, tgVars, importVars, proxyVars, obsVars>>
    \/ LoadAccountsOk /\ UNCHANGED <<bulkVars, saVars, tgVars, importVars, proxyVars, obsVars>>
    \/ LoadAccountsFail /\ UNCHANGED <<bulkVars, saVars, tgVars, importVars, proxyVars, obsVars>>
    \/ ToggleAccount /\ UNCHANGED <<bulkVars, saVars, tgVars, importVars, proxyVars, obsVars>>
    \/ SelectAll /\ UNCHANGED <<bulkVars, saVars, tgVars, importVars, proxyVars, obsVars>>
    \/ SetRenewalCount /\ UNCHANGED <<bulkVars, saVars, tgVars, importVars, proxyVars, obsVars>>
    \/ HandleRenewal /\ UNCHANGED <<bulkVars, saVars, tgVars, importVars, proxyVars, obsVars>>
    \/ RenewalSucceeds /\ UNCHANGED <<bulkVars, saVars, tgVars, importVars, proxyVars, obsVars>>
    \/ RenewalFails /\ UNCHANGED <<bulkVars, saVars, tgVars, importVars, proxyVars, obsVars>>
    \/ ClearActivityLogs /\ UNCHANGED <<bulkVars, saVars, tgVars, importVars, proxyVars, obsVars>>
    \/ Tick /\ UNCHANGED <<bulkVars, saVars, tgVars, importVars, proxyVars, obsVars>>

InitRenew ==
    RenewInit /\ BulkInit /\ SelectAllIdle /\ ToggleIdle /\ ImportInit /\ ProxyInit
    /\ ObsInit

SpecRenew == InitRenew /\ [][RenewNext]_vars

\* The Renewal page with its last successful renewal observed: the observer
\* records the instant at which the response was handled and the total put on
\* display then.  It forgets them when the log is cleared, and when the page
\* is reloaded before the save effect has stored the renewal's entries.
lastRenewal == observed

RenewObservedNext ==
    \/ PageLoad
          /\ observed' = (IF "results" \in pendingEffects THEN Absent
                          ELSE lastRenewal)
          /\ UNCHANGED <<bulkVars, saVars, tgVars, importVars, proxyVars>>
    \/ MountEffects /\ UNCHANGED observed
          /\ UNCHANGED <<bulkVars, saVars, tgVars, importVars, proxyVars>>
    \/ UpdateEffects /\ UNCHANGED observed
          /\ UNCHANGED <<bulkVars, saVars, tgVars, importVars, proxyVars>>
    \/ LoadAccountsOk /\ UNCHANGED observed
          /\ UNCHANGED <<bulkVars, saVars, tgVars, importVars, proxyVars>>
    \/ LoadAccountsFail /\ UNCHANGED observed
          /\ UNCHANGED <<bulkVars, saVars, tgVars, importVars, proxyVars>>
    \/ ToggleAccount /\ UNCHANGED observed
          /\ UNCHANGED <<bulkVars, saVars, tgVars, importVars, proxyVars>>
    \/ SelectAll /\ UNCHANGED observed
          /\ UNCHANGED <<bulkVars, saVars, tgVars, importVars, proxyVars>>
    \/ SetRenewalCount /\ UNCHANGED observed
          /\ UNCHANGED <<bulkVars, saVars, tgVars, importVars, proxyVars>>
    \/ HandleRenewal /\ UNCHANGED observed
          /\ UNCHANGED <<bulkVars, saVars, tgVars, importVars, proxyVars>>
    \/ RenewalSucceeds
          /\ observed' = Present([at |-> now, total |-> totalRenewed'])
          /\ UNCHANGED <<bulkVars, saVars, tgVars, importVars, proxyVars>>
    \/ RenewalFails /\ UNCHANGED observed
          /\ UNCHANGED <<bulkVars, saVars, tgVars, importVars, proxyVars>>
    \/ ClearActivityLogs /\ observed' = Absent
          /\ UNCHANGED <<bulkVars, saVars, tgVars, importVars, proxyVars>>
    \/ Tick /\ UNCHANGED observed
          /\ UNCHANGED <<bulkVars, saVars, tgVars, importVars, proxyVars>>

SpecRenewObserved == InitRenew /\ [][RenewObservedNext]_vars

BulkNext ==
    \/ BulkOpen /\ UNCHANGED <<renewVars, saVars, tgVars, importVars, proxyVars, obsVars>>
    \/ FetchAccountsOk /\ UNCHANGED <<renewVars, saVars, tgVars, importVars, proxyVars, obsVars>>
    \/ FetchAccountsFail /\ UNCHANGED <<renewVars, saVars, tgVars, importVars, proxyVars, obsVars>>
    \/ HandleFileChange /\ UNCHANGED <<renewVars, saVars, tgVars, importVars, proxyVars, obsVars>>
    \/ HandleImageFilesChange /\ UNCHANGED <<renewVars, saVars, tgVars, importVars, proxyVars, obsVars>>
    \/ HandleAccountToggle /\ UNCHANGED <<renewVars, saVars, tgVars, importVars, proxyVars, obsVars>>
    \/ HandleSelectAllAccounts /\ UNCHANGED <<renewVars, saVars, tgVars, importVars, proxyVars, obsVars>>
    \/ BulkHandleSubmit /\ UNCHANGED <<renewVars, saVars, tgVars, importVars, proxyVars, obsVars>>
    \/ UploadSucceeds /\ UNCHANGED <<renewVars, saVars, tgVars, importVars, proxyVars, obsVars>>
    \/ UploadFails /\ UNCHANGED <<renewVars, saVars, tgVars, importVars, proxyVars, obsVars>>
    \/ AutoClose /\ UNCHANGED <<renewVars, saVars, tgVars, importVars, proxyVars, obsVars>>
    \/ BulkHandleClose /\ UNCHANGED <<renewVars, saVars, tgVars, importVars, proxyVars, obsVars>>

InitBulk ==
    RenewInit /\ BulkInit /\ SelectAllIdle /\ ToggleIdle /\ ImportInit /\ ProxyInit
    /\ ObsInit

SpecBulk == InitBulk /\ [][BulkNext]_vars

\* The Bulk Upload modal with the image selection events observed: each step
\* records the files of the event it handled, if it handled one.
pickedFiles == observed

BulkPicksNext ==
    \/ BulkOpen /\ observed' = Absent
          /\ UNCHANGED <<renewVars, saVars, tgVars, importVars, proxyVars>>
    \/ FetchAccountsOk /\ observed' = Absent
          /\ UNCHANGED <<renewVars, saVars, tgVars, importVars, proxyVars>>
    \/ FetchAccountsFail /\ observed' = Absent
          /\ UNCHANGED <<renewVars, saVars, tgVars, importVars, proxyVars>>
    \/ HandleFileChange /\ observed' = Absent
          /\ UNCHANGED <<renewVars, saVars, tgVars, importVars, proxyVars>>
    \/ (\E files \in ImagePicks :
           ImageFilesChosen(files) /\ observed' = Present(files))
          /\ UNCHANGED <<renewVars, saVars, tgVars, importVars, proxyVars>>
    \/ HandleAccountToggle /\ observed' = Absent
          /\ UNCHANGED <<renewVars, saVars, tgVars, importVars, proxyVars>>
    \/ HandleSelectAllAccounts /\ observed' = Absent
          /\ UNCHANGED <<renewVars, saVars, tgVars, importVars, proxyVars>>
    \/ BulkHandleSubmit /\ observed' = Absent
          /\ UNCHANGED <<renewVars, saVars, tgVars, importVars, proxyVars>>
    \/ UploadSucceeds /\ observed' = Absent
          /\ UNCHANGED <<renewVars, saVars, tgVars, importVars, proxyVars>>
    \/ UploadFails /\ observed' = Absent
          /\ UNCHANGED <<renewVars, saVars, tgVars, importVars, proxyVars>>
    \/ AutoClose /\ observed' = Absent
          /\ UNCHANGED <<renewVars, saVars, tgVars, importVars, proxyVars>>
    \/ BulkHandleClose /\ observed' = Absent
          /\ UNCHANGED <<renewVars, saVars, tgVars, importVars, proxyVars>>

SpecBulkPicks == InitBulk /\ [][BulkPicksNext]_vars

\* The Bulk Upload modal with its sessions observed.  A session runs from an
\* open to the next close.  The observer records whether the upload in flight
\* was submitted in the session now open, and, for the pending auto-close
\* timers in the order they were armed (equal delays: they fire in that
\* order), whether the submit that armed each was made in the session now open.
ownSession == observed

SessionsAtRest == [upload |-> FALSE, timers |-> <<>>]

\* Every pending submit and timer belongs to a session that has ended.
SessionEnds(timers) ==
    [upload |-> FALSE, timers |-> [i \in 1..Len(timers) |-> FALSE]]

BulkSessionsNext ==
    \/ BulkOpen /\ UNCHANGED observed
          /\ UNCHANGED <<renewVars, saVars, tgVars, importVars, proxyVars>>
    \/ FetchAccountsOk /\ UNCHANGED observed
          /\ UNCHANGED <<renewVars, saVars, tgVars, importVars, proxyVars>>
    \/ FetchAccountsFail /\ UNCHANGED observed
          /\ UNCHANGED <<renewVars, saVars, tgVars, importVars, proxyVars>>
    \/ HandleFileChange /\ UNCHANGED observed
          /\ UNCHANGED <<renewVars, saVars, tgVars, importVars, proxyVars>>
    \/ HandleImageFilesChange /\ UNCHANGED observed
          /\ UNCHANGED <<renewVars, saVars, tgVars, importVars, proxyVars>>
    \/ HandleAccountToggle /\ UNCHANGED observed
          /\ UNCHANGED <<renewVars, saVars, tgVars, importVars, proxyVars>>
    \/ HandleSelectAllAccounts /\ UNCHANGED observed
          /\ UNCHANGED <<renewVars, saVars, tgVars, importVars, proxyVars>>
    \/ BulkHandleSubmit
          /\ observed' = (IF uploads' # uploads
                          THEN [ownSession EXCEPT !.upload = TRUE]
                          ELSE ownSession)
          /\ UNCHANGED <<renewVars, saVars, tgVars, importVars, proxyVars>>
    \/ UploadSucceeds
          /\ observed' = [upload |-> FALSE,
                          timers |-> Append(ownSession.timers, ownSession.upload)]
          /\ UNCHANGED <<renewVars, saVars, tgVars, importVars, proxyVars>>
    \/ UploadFails /\ observed' = [ownSession EXCEPT !.upload = FALSE]
          /\ UNCHANGED <<renewVars, saVars, tgVars, importVars, proxyVars>>
    \/ AutoClose /\ observed' = SessionEnds(Tail(ownSession.timers))
          /\ UNCHANGED <<renewVars, saVars, tgVars, importVars, proxyVars>>
    \/ BulkHandleClose /\ observed' = SessionEnds(ownSession.timers)
          /\ UNCHANGED <<renewVars, saVars, tgVars, importVars, proxyVars>>

InitBulkSessions ==
    RenewInit /\ BulkInit /\ SelectAllIdle /\ ToggleIdle /\ ImportInit /\ ProxyInit
    /\ observed = SessionsAtRest

SpecBulkSessions == InitBulkSessions /\ [][BulkSessionsNext]_vars

SelectAllNext ==
    \/ ApplyRenewSelectAll /\ UNCHANGED <<renewVars, bulkVars, tgVars, importVars, proxyVars, obsVars>>
    \/ ApplyBulkSelectAll /\ UNCHANGED <<renewVars, bulkVars, tgVars, importVars, proxyVars, obsVars>>

InitSelectAll ==
    RenewInit /\ BulkInit /\ SelectAllInit /\ ToggleIdle /\ ImportInit /\ ProxyInit
    /\ ObsInit

SpecSelectAll == InitSelectAll /\ [][SelectAllNext]_vars

ToggleNext ==
    \/ ApplyRenewToggle /\ UNCHANGED <<renewVars, bulkVars, saVars, importVars, proxyVars, obsVars>>
    \/ ApplyBulkToggle /\ UNCHANGED <<renewVars, bulkVars, saVars, importVars, proxyVars, obsVars>>

InitToggle ==
    RenewInit /\ BulkInit /\ SelectAllIdle /\ ToggleInit /\ ImportInit /\ ProxyInit
    /\ ObsInit

SpecToggle == InitToggle /\ [][ToggleNext]_vars

ImportNext ==
    \/ ImportOpen /\ UNCHANGED <<renewVars, bulkVars, saVars, tgVars, proxyVars, obsVars>>
    \/ SetInputMethod /\ UNCHANGED <<renewVars, bulkVars, saVars, tgVars, proxyVars, obsVars>>
    \/ HandleFileUpload /\ UNCHANGED <<renewVars, bulkVars, saVars, tgVars, proxyVars, obsVars>>
    \/ FileReadCompletes /\ UNCHANGED <<renewVars, bulkVars, saVars, tgVars, proxyVars, obsVars>>
    \/ TextareaChange /\ UNCHANGED <<renewVars, bulkVars, saVars, tgVars, proxyVars, obsVars>>
    \/ FilenameChange /\ UNCHANGED <<renewVars, bulkVars, saVars, tgVars, proxyVars, obsVars>>
    \/ ImportHandleSubmit /\ UNCHANGED <<renewVars, bulkVars, saVars, tgVars, proxyVars, obsVars>>
    \/ ImportSucceeds /\ UNCHANGED <<renewVars, bulkVars, saVars, tgVars, proxyVars, obsVars>>
    \/ ImportFails /\ UNCHANGED <<renewVars, bulkVars, saVars, tgVars, proxyVars, obsVars>>
    \/ ImportTimerFires /\ UNCHANGED <<renewVars, bulkVars, saVars, tgVars, proxyVars, obsVars>>
    \/ ImportHandleClose /\ UNCHANGED <<renewVars, bulkVars, saVars, tgVars, proxyVars, obsVars>>

InitImport ==
    RenewInit /\ BulkInit /\ SelectAllIdle /\ ToggleIdle /\ ImportInit /\ ProxyInit
    /\ ObsInit

SpecImport == InitImport /\ [][ImportNext]_vars

\* The Import Session modal with its file selections observed: the observer
\* records the last file whose selection the handler accepted, and forgets it
\* when something other than a file selection or a file read writes the
\* filename or the session data.
lastFile == observed

ImportPicksNext ==
    \/ ImportOpen /\ UNCHANGED observed
          /\ UNCHANGED <<renewVars, bulkVars, saVars, tgVars, proxyVars>>
    \/ SetInputMethod /\ UNCHANGED observed
          /\ UNCHANGED <<renewVars, bulkVars, saVars, tgVars, proxyVars>>
    \/ (\E file \in FilePicks :
           /\ FileChosen(file)
           /\ observed' = IF EndsWithJson(file.name)
                          THEN Present(file)
                          ELSE lastFile)
          /\ UNCHANGED <<renewVars, bulkVars, saVars, tgVars, proxyVars>>
    \/ FileReadCompletes /\ UNCHANGED observed
          /\ UNCHANGED <<renewVars, bulkVars, saVars, tgVars, proxyVars>>
    \/ TextareaChange /\ observed' = Absent
          /\ UNCHANGED <<renewVars, bulkVars, saVars, tgVars, proxyVars>>
    \/ FilenameChange /\ observed' = Absent
          /\ UNCHANGED <<renewVars, bulkVars, saVars, tgVars, proxyVars>>
    \/ ImportHandleSubmit /\ UNCHANGED observed
          /\ UNCHANGED <<renewVars, bulkVars, saVars, tgVars, proxyVars>>
    \/ ImportSucceeds /\ UNCHANGED observed
          /\ UNCHANGED <<renewVars, bulkVars, saVars, tgVars, proxyVars>>
    \/ ImportFails /\ UNCHANGED observed
          /\ UNCHANGED <<renewVars, bulkVars, saVars, tgVars, proxyVars>>
    \/ ImportTimerFires /\ observed' = Absent
          /\ UNCHANGED <<renewVars, bulkVars, saVars, tgVars, proxyVars>>
    \/ ImportHandleClose /\ observed' = Absent
          /\ UNCHANGED <<renewVars, bulkVars, saVars, tgVars, proxyVars>>

SpecImportPicks == InitImport /\ [][ImportPicksNext]_vars

(***************************************************************************)
(* The three submit flows side by side.  The Renewal page, the Bulk Upload *)
(* modal and the Import Session modal share no state; the user works with  *)
(* one of them at a time, the other two being as they were first rendered. *)
(***************************************************************************)
SubmitsNext ==
    \/ BulkInit /\ ImportInit /\ PageLoad
          /\ UNCHANGED <<bulkVars, saVars, tgVars, importVars, proxyVars, obsVars>>
    \/ BulkInit /\ ImportInit /\ MountEffects
          /\ UNCHANGED <<bulkVars, saVars, tgVars, importVars, proxyVars, obsVars>>
    \/ BulkInit /\ ImportInit /\ UpdateEffects
          /\ UNCHANGED <<bulkVars, saVars, tgVars, importVars, proxyVars, obsVars>>
    \/ BulkInit /\ ImportInit /\ LoadAccountsOk
          /\ UNCHANGED <<bulkVars, saVars, tgVars, importVars, proxyVars, obsVars>>
    \/ BulkInit /\ ImportInit /\ LoadAccountsFail
          /\ UNCHANGED <<bulkVars, saVars, tgVars, importVars, proxyVars, obsVars>>
    \/ BulkInit /\ ImportInit /\ ToggleAccount
          /\ UNCHANGED <<bulkVars, saVars, tgVars, importVars, proxyVars, obsVars>>
    \/ BulkInit /\ ImportInit /\ SelectAll
          /\ UNCHANGED <<bulkVars, saVars, tgVars, importVars, proxyVars, obsVars>>
    \/ BulkInit /\ ImportInit /\ SetRenewalCount
          /\ UNCHANGED <<bulkVars, saVars, tgVars, importVars, proxyVars, obsVars>>
    \/ BulkInit /\ ImportInit /\ HandleRenewal
          /\ UNCHANGED <<bulkVars, saVars, tgVars, importVars, proxyVars, obsVars>>
    \/ BulkInit /\ ImportInit /\ RenewalSucceeds
          /\ UNCHANGED <<bulkVars, saVars, tgVars, importVars, proxyVars, obsVars>>
    \/ BulkInit /\ ImportInit /\ RenewalFails
          /\ UNCHANGED <<bulkVars, saVars, tgVars, importVars, proxyVars, obsVars>>
    \/ BulkInit /\ ImportInit /\ ClearActivityLogs
          /\ UNCHANGED <<bulkVars, saVars, tgVars, importVars, proxyVars, obsVars>>
    \/ BulkInit /\ ImportInit /\ Tick
          /\ UNCHANGED <<bulkVars, saVars, tgVars, importVars, proxyVars, obsVars>>
    \/ RenewInit /\ ImportInit /\ BulkOpen
          /\ UNCHANGED <<renewVars, saVars, tgVars, importVars, proxyVars, obsVars>>
    \/ RenewInit /\ ImportInit /\ FetchAccountsOk
          /\ UNCHANGED <<renewVars, saVars, tgVars, importVars, proxyVars, obsVars>>
    \/ RenewInit /\ ImportInit /\ FetchAccountsFail
          /\ UNCHANGED <<renewVars, saVars, tgVars, importVars, proxyVars, obsVars>>
    \/ RenewInit /\ ImportInit /\ HandleFileChange
          /\ UNCHANGED <<renewVars, saVars, tgVars, importVars, proxyVars, obsVars>>
    \/ RenewInit /\ ImportInit /\ HandleImageFilesChange
          /\ UNCHANGED <<renewVars, saVars, tgVars, importVars, proxyVars, obsVars>>
    \/ RenewInit /\ ImportInit /\ HandleAccountToggle
          /\ UNCHANGED <<renewVars, saVars, tgVars, importVars, proxyVars, obsVars>>
    \/ RenewInit /\ ImportInit /\ HandleSelectAllAccounts
          /\ UNCHANGED <<renewVars, saVars, tgVars, importVars, proxyVars, obsVars>>
    \/ RenewInit /\ ImportInit /\ BulkHandleSubmit
          /\ UNCHANGED <<renewVars, saVars, tgVars, importVars, proxyVars, obsVars>>
    \/ RenewInit /\ ImportInit /\ UploadSucceeds
          /\ UNCHANGED <<renewVars, saVars, tgVars, importVars, proxyVars, obsVars>>
    \/ RenewInit /\ ImportInit /\ UploadFails
          /\ UNCHANGED <<renewVars, saVars, tgVars, importVars, proxyVars, obsVars>>
    \/ RenewInit /\ ImportInit /\ AutoClose
          /\ UNCHANGED <<renewVars, saVars, tgVars, importVars, proxyVars, obsVars>>
    \/ RenewInit /\ ImportInit /\ BulkHandleClose
          /\ UNCHANGED <<renewVars, saVars, tgVars, importVars, proxyVars, obsVars>>
    \/ RenewInit /\ BulkInit /\ ImportOpen
          /\ UNCHANGED <<renewVars, bulkVars, saVars, tgVars, proxyVars, obsVars>>
    \/ RenewInit /\ BulkInit /\ SetInputMethod
          /\ UNCHANGED <<renewVars, bulkVars, saVars, tgVars, proxyVars, obsVars>>
    \/ RenewInit /\ BulkInit /\ HandleFileUpload
          /\ UNCHANGED <<renewVars, bulkVars, saVars, tgVars, proxyVars, obsVars>>
    \/ RenewInit /\ BulkInit /\ FileReadCompletes
          /\ UNCHANGED <<renewVars, bulkVars, saVars, tgVars, proxyVars, obsVars>>
    \/ RenewInit /\ BulkInit /\ TextareaChange
          /\ UNCHANGED <<renewVars, bulkVars, saVars, tgVars, proxyVars, obsVars>>
    \/ RenewInit /\ BulkInit /\ FilenameChange
          /\ UNCHANGED <<renewVars, bulkVars, saVars, tgVars, proxyVars, obsVars>>
    \/ RenewInit /\ BulkInit /\ ImportHandleSubmit
          /\ UNCHANGED <<renewVars, bulkVars, saVars, tgVars, proxyVars, obsVars>>
    \/ RenewInit /\ BulkInit /\ ImportSucceeds
          /\ UNCHANGED <<renewVars, bulkVars, saVars, tgVars, proxyVars, obsVars>>
    \/ RenewInit /\ BulkInit /\ ImportFails
          /\ UNCHANGED <<renewVars, bulkVars, saVars, tgVars, proxyVars, obsVars>>
    \/ RenewInit /\ BulkInit /\ ImportTimerFires
          /\ UNCHANGED <<renewVars, bulkVars, saVars, tgVars, proxyVars, obsVars>>
    \/ RenewInit /\ BulkInit /\ ImportHandleClose
          /\ UNCHANGED <<renewVars, bulkVars, saVars, tgVars, proxyVars, obsVars>>

InitSubmits ==
    RenewInit /\ BulkInit /\ SelectAllIdle /\ ToggleIdle /\ ImportInit /\ ProxyInit
    /\ ObsInit

SpecSubmits == InitSubmits /\ [][SubmitsNext]_vars

ProxyNext ==
    \/ ProxyGET /\ UNCHANGED <<renewVars, bulkVars, saVars, tgVars, importVars, obsVars>>
    \/ ProxyFetchResolves
          /\ UNCHANGED <<renewVars, bulkVars, saVars, tgVars, importVars, obsVars>>
    \/ ProxyFetchRejects
          /\ UNCHANGED <<renewVars, bulkVars, saVars, tgVars, importVars, obsVars>>

InitProxy ==
    RenewInit /\ BulkInit /\ SelectAllIdle /\ ToggleIdle /\ ImportInit
    /\ ProxyInit /\ ObsInit

SpecProxy == InitProxy /\ [][ProxyNext]_vars

Spec == SpecRenew

(***************************************************************************)
(* Properties of the Renewal page, checked under SpecRenew.                *)
(***************************************************************************)
RenewalInFlight == BagCardinality(renewRequests) > 0

MarkerAbsent == activeRenewalJobId = NoJob /\ lsActiveRenewalJobId = NoJob

MarkerPresent == activeRenewalJobId # NoJob /\ lsActiveRenewalJobId # NoJob

\* C1: from the submit until the renewListings call is handled, the job
\* marker stays in component state and in localStorage and loading stays true.
C1_MarkerHeldWhileInFlight ==
    RenewalInFlight => (loading /\ MarkerPresent)

\* C2: at most one renewListings call is in flight at any time (the submit
\* button is only ever activated while it is rendered enabled).
C2_AtMostOneRenewalInFlight ==
    BagCardinality(renewRequests) <= 1

\* The mount effects have run on a freshly loaded page and nothing else has
\* happened yet (the account list is still being fetched).
AfterMountEffects ==
    /\ "mount" \notin pendingEffects
    /\ accountsRequest
    /\ accounts = <<>>
    /\ renewRequests = EmptyBag

\* C3: after every termination path (call succeeded, call failed, page load
\* that found a stored marker) and its effects, loading is false and the
\* marker is absent from state and localStorage; in particular whenever no
\* renewal call is in flight.
C3_TerminationClearsMarkerAndLoading ==
    /\ (Idle /\ (~RenewalInFlight \/ lastResponse.handled \/ lastAlert = "error"))
          => (~loading /\ MarkerAbsent)
    /\ AfterMountEffects => (~loading /\ MarkerAbsent)

\* C3 witness: a page load found a stored marker and the mount effects have
\* just cleared it (the job-id change is still to be re-rendered).
C3_Witness ==
    /\ AfterMountEffects
    /\ "job" \in pendingEffects
    /\ ~loading /\ MarkerAbsent

\* C4: a submit with an empty selection or a count outside [1,20] issues no
\* call and leaves loading, results, totalRenewed and the marker unchanged;
\* every call that is issued carries a non-empty selection and a count in
\* [1,20].
C4_RejectedSubmitChangesNothing ==
    /\ [][lastAlert' \in {"select", "range"} =>
             UNCHANGED <<loading, results, totalRenewed, activeRenewalJobId,
                         lsActiveRenewalJobId, renewRequests>>]_renewVars
    /\ [][BagCardinality(renewRequests') > BagCardinality(renewRequests) =>
             /\ Len(selectedAccounts) > 0
             /\ renewalCount \in MinRenewalCount..MaxRenewalCount]_renewVars

\* C4 witness: a submit with count 21 and a non-empty selection was rejected
\* while a log was on display.
C4_Witness ==
    /\ lastAlert = "range"
    /\ renewalCount = MaxRenewalCount + 1
    /\ Len(selectedAccounts) > 0
    /\ Len(results) > 0
    /\ ~RenewalInFlight

\* An entry without its timestamp.
Fields(e) == [account_id |-> e.account_id, renewed_count |-> e.renewed_count]

DisplayedEntries == [i \in 1..Len(results) |-> Fields(results[i])]

StoredEntries ==
    IF lsRenewalActivityLogs.present
    THEN [i \in 1..Len(lsRenewalActivityLogs.logs) |->
             Fields(lsRenewalActivityLogs.logs[i])]
    ELSE <<>>

\* C5: after every change of results (and the effects it triggers) the list
\* stored under renewalActivityLogs has exactly the entries on display.
C5_StoredLogEqualsDisplayedLog ==
    Idle => StoredEntries = DisplayedEntries

\* The instants the clock can show, and the instant an ISO string denotes.
ClockValues == {k * TickMs : k \in 0..MaxTicks}

Instant(iso) == CHOOSE t \in ClockValues : toISOString(t) = iso

AgeAtLoad(entry) == now - Instant(entry.timestamp)

\* The load effect has just run on a stored list; the save effect that the
\* new results trigger has not run yet.
JustLoaded ==
    /\ AfterMountEffects
    /\ "results" \in pendingEffects
    /\ lsRenewalActivityLogs.present

\* The stored entries of age below 24 hours (and, when atBoundary, those of
\* age exactly 24 hours), in stored order, with the timestamp as an instant.
RetainedAtLoad(atBoundary) ==
    LET keep == SelectSeq(lsRenewalActivityLogs.logs,
                    LAMBDA e : \/ AgeAtLoad(e) < TwentyFourHours
                               \/ atBoundary /\ AgeAtLoad(e) = TwentyFourHours)
    IN  [i \in 1..Len(keep) |->
            [account_id |-> keep[i].account_id,
             renewed_count |-> keep[i].renewed_count,
             timestamp |-> Instant(keep[i].timestamp)]]

\* C6: on page load every stored entry older than 24 hours is excluded from
\* the displayed log and every entry younger than 24 hours is retained,
\* fields unchanged, in stored order.
C6_LoadKeepsExactlyTheLast24Hours ==
    JustLoaded =>
        \E atBoundary \in BOOLEAN : results = RetainedAtLoad(atBoundary)

\* C6 witness: a stored list of two entries, 36 hours old, was dropped.
C6_Witness ==
    /\ JustLoaded
    /\ Len(lsRenewalActivityLogs.logs) = 2
    /\ \A i \in 1..2 :
          AgeAtLoad(lsRenewalActivityLogs.logs[i]) > TwentyFourHours
    /\ results = <<>>

\* C7: what the save effect stored is the displayed list, and reloading
\* within 24 hours yields the stored entries in the stored order, the
\* timestamp of each being the date whose ISO string was stored.
C7_SaveThenReloadRoundTrip ==
    /\ (Idle /\ Len(results) > 0) =>
          /\ lsRenewalActivityLogs.present
          /\ StoredEntries = DisplayedEntries
    /\ (JustLoaded /\ \A i \in 1..Len(lsRenewalActivityLogs.logs) :
                         AgeAtLoad(lsRenewalActivityLogs.logs[i]) < TwentyFourHours)
          => /\ DisplayedEntries = StoredEntries
             /\ \A i \in 1..Len(results) :
                   toISOString(results[i].timestamp) =
                      lsRenewalActivityLogs.logs[i].timestamp

\* C7 witness: two entries saved at 18:00 of day 0 were reloaded 18 hours
\* later, in the order <<2, 1>> in which they were stored.
C7_Witness ==
    /\ JustLoaded
    /\ Len(results) = 2
    /\ results[1].account_id = 2 /\ results[2].account_id = 1
    /\ results[1].renewed_count # results[2].renewed_count
    /\ results[1].timestamp = TickMs
    /\ now = 2 * TickMs

\* C8: after a successful call totalRenewed is the response's total_renewed
\* when that field is present (also when it is 0), else the sum of the
\* renewed_count values.
C8_TotalFromAggregateElseSum ==
    lastResponse.handled =>
        totalRenewed =
            IF lastResponse.total_renewed # Absent
            THEN lastResponse.total_renewed[1]
            ELSE SumRenewed([i \in 1..Len(lastResponse.counts) |->
                                [renewed_count |-> lastResponse.counts[i]]])

\* C12: clearActivityLogs leaves the results list empty, the selection empty,
\* totalRenewed 0 and no renewalActivityLogs key, raising no alert; the
\* effects that then run leave all of that as it is; and invoked a second
\* time in a row it changes nothing of what is displayed or stored.
C12_ClearLeavesEmptyStateTwice ==
    /\ [][ClearActivityLogs => (Cleared' /\ lastAlert' = "none")]_renewVars
    /\ [][(Cleared /\ UpdateEffects) => Cleared']_renewVars
    /\ [][(Cleared /\ ClearActivityLogs) =>
             UNCHANGED <<accounts, selectedAccounts, renewalCount, loading,
                         results, totalRenewed, activeRenewalJobId,
                         lsActiveRenewalJobId, lsRenewalActivityLogs>>]_renewVars

\* C12 witness: clearActivityLogs has just run with the account list loaded;
\* its effects are still due.
C12_Witness ==
    /\ Cleared
    /\ "results" \in pendingEffects
    /\ "mount" \notin pendingEffects
    /\ ~loading /\ MarkerAbsent
    /\ accounts = ServerAccounts
    /\ now > 0

\* Time elapsed since the last successful renewal was handled.
SinceRenewal == now - lastRenewal[1].at

\* C25: an entry produced by a renewal is not displayed by a page load that
\* happens more than 24 hours after that renewal.
C25_NoEntryShownPastItsLifetime ==
    (JustLoaded /\ lastRenewal # Absent /\ results # <<>>)
       => SinceRenewal <= TwentyFourHours

\* C26: a page load within 24 hours of a successful renewal shows the total
\* that was shown when the renewal succeeded.
C26_ReloadShowsSameTotal ==
    (JustLoaded /\ lastRenewal # Absent /\ SinceRenewal < TwentyFourHours)
       => totalRenewed = lastRenewal[1].total

(***************************************************************************)
(* Properties of the Bulk Upload modal, checked under SpecBulk.            *)
(***************************************************************************)
\* C9: the selected accounts are always among the ids of the loaded list.
C9_SelectionWithinLoadedAccounts ==
    /\ Range(selectedAccounts) \subseteq Range(accounts)
    /\ Range(bulkSelectedAccounts) \subseteq Range(bulkAccounts)

UploadHandled == BagCardinality(uploads') < BagCardinality(uploads)

\* C13: a submit with no text file, or with an empty account selection, issues
\* no request, raises an error toast and leaves loading, uploadResult and the
\* form fields unchanged; every request issued carries a text file and a
\* non-empty selection.
C13_RejectedUploadChangesNothing ==
    /\ [][(BulkHandleSubmit /\ (txtFile = NoFile \/ bulkSelectedAccounts = <<>>))
             => /\ lastToast'.type = "error"
                /\ UNCHANGED <<uploads, bulkLoading, uploadResult, txtFile,
                               imageFiles, bulkSelectedAccounts, isOpen,
                               closeTimers>>]_bulkVars
    /\ [][BagCardinality(uploads') > BagCardinality(uploads)
             => (txtFile # NoFile /\ bulkSelectedAccounts # <<>>)]_bulkVars

\* C13 witness: with a text file and an image chosen and the panel of an
\* earlier failure on display, a submit with no account selected was refused.
C13_Witness ==
    /\ lastToast = Toast("error", "Please select at least one account")
    /\ txtFile # NoFile
    /\ imageFiles # <<>>
    /\ bulkSelectedAccounts = <<>>
    /\ uploadResult # NoResult
    /\ uploads = EmptyBag
    /\ ~bulkLoading

\* C14: when a 2xx response is handled, txtFile, imageFiles and the selection
\* are reset to empty, onSuccess is called exactly once and onClose not yet,
\* loading ends false and one timer of 2 seconds is armed; onClose is called
\* once per timer, in the later step in which that timer fires.
C14_SuccessResetsNotifiesThenCloses ==
    /\ [][(UploadHandled /\ uploadResult'[1].success)
             => /\ txtFile' = NoFile
                /\ imageFiles' = <<>>
                /\ bulkSelectedAccounts' = <<>>
                /\ bulkCallbacks' = <<"onSuccess">>
                /\ ~bulkLoading'
                /\ UNCHANGED isOpen
                /\ closeTimers' = closeTimers (+) SetToBag({[delay |-> 2000]})]_bulkVars
    /\ [][BagCardinality(closeTimers') < BagCardinality(closeTimers)
             => /\ BagCardinality(closeTimers') = BagCardinality(closeTimers) - 1
                /\ bulkCallbacks' = <<"onClose">>
                /\ ~isOpen']_bulkVars

\* C14 witness: the success was handled (panel on display, form empty,
\* loading false) and its timer has then fired and closed the modal.
C14_Witness ==
    /\ uploadResult # NoResult /\ uploadResult[1].success
    /\ txtFile = NoFile /\ imageFiles = <<>> /\ bulkSelectedAccounts = <<>>
    /\ ~bulkLoading
    /\ closeTimers = EmptyBag
    /\ bulkCallbacks = <<"onClose">>
    /\ ~isOpen

\* C15: when a failed submit (non-2xx response or exception) is handled,
\* uploadResult is a failure carrying the message, the error toast carries
\* the same message, neither onSuccess nor onClose is called, no timer is
\* armed, and txtFile, imageFiles and the selection are left as they are.
C15_FailureKeepsFormAndReportsTwice ==
    [][(UploadHandled /\ ~uploadResult'[1].success)
         => /\ uploadResult'[1].message # ""
            /\ lastToast' = Toast("error", uploadResult'[1].message)
            /\ bulkCallbacks' = <<>>
            /\ ~bulkLoading'
            /\ UNCHANGED <<txtFile, imageFiles, bulkSelectedAccounts, isOpen,
                           closeTimers>>]_bulkVars

\* C15 witness: a failure with the backend's own error text was handled with
\* the form (text file, an image, both accounts) still filled in.
C15_Witness ==
    /\ uploadResult = <<[success |-> FALSE, message |-> "quota exceeded"]>>
    /\ lastToast = Toast("error", "quota exceeded")
    /\ txtFile # NoFile
    /\ Len(imageFiles) = 1
    /\ Len(bulkSelectedAccounts) = 2
    /\ isOpen /\ ~bulkLoading

\* The values of the entries of a multipart body that carry one name, in body
\* order (what FormData.getAll(name) returns to the receiver).
getAll(body, name) ==
    LET named == SelectSeq(body, LAMBDA entry : entry.name = name)
    IN  [i \in 1..Len(named) |-> named[i].value]

\* The request a submit step has put in flight.
Issued(body) ==
    /\ BagCardinality(uploads') = BagCardinality(uploads) + 1
    /\ CopiesIn(body, uploads') = CopiesIn(body, uploads) + 1

\* C23: the one multipart request a submit issues carries the chosen text
\* file as its only txt_file entry, the selected account ids as its
\* account_ids[] entries (one per selected account, in selection order, as
\* decimal strings) and the files of imageFiles as its images entries in
\* stored order, all as they were when the submit was taken, and nothing else.
C23_RequestCarriesFormAsAtSubmit ==
    [][(BulkHandleSubmit /\ uploads' # uploads)
         => \E body \in BagToSet(uploads') :
               /\ Issued(body)
               /\ getAll(body, "txt_file") = <<[file |-> txtFile[1]]>>
               /\ getAll(body, "account_ids[]")
                     = [i \in 1..Len(bulkSelectedAccounts) |->
                           [string |-> ToString(bulkSelectedAccounts[i])]]
               /\ getAll(body, "images")
                     = [i \in 1..Len(imageFiles) |-> [file |-> imageFiles[i]]]
               /\ Len(body) = 1 + Len(bulkSelectedAccounts) + Len(imageFiles)]_vars

\* C23 witness: a request with two account ids in the order 2, 1 and two
\* images in the order b, a is in flight.
C23_Witness ==
    \E body \in BagToSet(uploads) :
       /\ getAll(body, "account_ids[]") = <<[string |-> "2"], [string |-> "1"]>>
       /\ getAll(body, "images") = <<[file |-> JpegB], [file |-> PngA]>>
       /\ getAll(body, "txt_file") = <<[file |-> [name |-> "posts", ext |-> "txt"]]>>

BulkFormEmpty ==
    /\ txtFile = NoFile
    /\ imageFiles = <<>>
    /\ bulkSelectedAccounts = <<>>
    /\ uploadResult = NoResult

ImportFormEmpty ==
    /\ sessionData = <<>>
    /\ filename = <<>>
    /\ error = NoError
    /\ ~success
    /\ importDetails = NoDetails

\* C24: form state does not outlive a modal session: whenever the Bulk Upload
\* or the Import Session modal is opened, after whatever close preceded it
\* (handleClose or the auto-close after a success), txtFile, imageFiles,
\* selectedAccounts and uploadResult, respectively sessionData, filename,
\* error, success and importDetails, are empty.
C24_ReopenedFormStartsEmpty ==
    [][/\ BulkOpen => BulkFormEmpty'
       /\ ImportOpen => ImportFormEmpty']_vars

\* An auto-close timer fires.
TimerFires == BagCardinality(closeTimers') < BagCardinality(closeTimers)

\* C27: the auto-close timer armed by a successful submit fires only in the
\* session in which that submit was made, while that session is still open:
\* it never calls onClose on a modal that was closed and reopened since, and
\* never on a session that handleClose has already closed (onClose at most
\* once per session).
C27_TimerClosesOnlyItsOwnSession ==
    [][TimerFires => isOpen /\ Head(ownSession.timers)]_vars

\* The files of a selection whose MIME type begins with "image/", in order.
IsImage(file) == file.type[1] = "image"

Images(files) == Filter(files, {file \in Range(files) : IsImage(file)})

ImageWarning == Toast("error", "Some files are not valid images")

\* A file of the selection event just handled was dropped.
Dropped ==
    /\ pickedFiles # Absent
    /\ \E i \in 1..Len(pickedFiles[1]) : ~IsImage(pickedFiles[1][i])

\* C22: after every selection event, imageFiles is the subsequence of the
\* chosen files whose MIME type begins with "image/", in their order; the
\* toast "Some files are not valid images" is raised iff a chosen file was
\* dropped; and a submit that follows a selection with dropped files, with a
\* text file and an account selected, issues the request.
C22_ImagesFilteredWarnedNotBlocking ==
    /\ [](pickedFiles # Absent
             => /\ imageFiles = Images(pickedFiles[1])
                /\ (lastToast = ImageWarning) <=> Dropped
                /\ lastToast \in {ImageWarning, NoToast})
    /\ [][(/\ Dropped
           /\ BulkHandleSubmit
           /\ txtFile # NoFile
           /\ bulkSelectedAccounts # <<>>)
             => /\ BagCardinality(uploads') = BagCardinality(uploads) + 1
                /\ bulkLoading']_vars

\* C22 witness: of a PDF and an image chosen together the image alone was
\* kept and the toast raised, with a text file and an account selected, so
\* that the submit button is enabled.
C22_Witness ==
    /\ pickedFiles = Present(<<PdfC, PngA>>)
    /\ imageFiles = <<PngA>>
    /\ lastToast = ImageWarning
    /\ txtFile # NoFile
    /\ bulkSelectedAccounts # <<>>
    /\ ~BulkSubmitDisabled

(***************************************************************************)
(* Properties of the Import Session modal, checked under SpecImport.       *)
(***************************************************************************)
\* A text is valid JSON (decided by the grammar, not by the handlers).
ValidJSON(text) == ParseValue(Trim(text)).ok

ImportCallIssued == BagCardinality(importCalls') > BagCardinality(importCalls)

\* C16: importSession is never called with session data that is blank or
\* not valid JSON, nor with a blank filename: every call issued carries the
\* parsed value of a valid text and the filename; a submit on such input
\* issues no call, sets an inline error and ends with loading false.
C16_OnlyValidJSONIsSubmitted ==
    /\ [][ImportCallIssued =>
             /\ ~Blank(sessionData) /\ ~Blank(filename)
             /\ ValidJSON(sessionData)
             /\ importCalls' = importCalls (+)
                   SetToBag({[session_data |-> ParseValue(Trim(sessionData)).value,
                              filename |-> filename]})]_importVars
    /\ [][(ImportHandleSubmit
             /\ (Blank(sessionData) \/ Blank(filename) \/ ~ValidJSON(sessionData)))
             => /\ UNCHANGED importCalls
                /\ error' # NoError
                /\ ~importLoading']_importVars

\* C16 witness: a submit of the pasted text "{" with a filename was refused
\* by the handler's own parse.
C16_Witness ==
    /\ sessionData = <<"{">>
    /\ filename = <<"a">>
    /\ error = "Invalid JSON format. Please paste valid JSON data from your browser session export."
    /\ ~importLoading
    /\ importCalls = EmptyBag

InvalidText == ~Blank(sessionData) /\ ~ValidJSON(sessionData)

\* C17 as stated: while the session text is not valid JSON the inline error
\* is set and the submit control is disabled; once the text is valid JSON
\* the error is cleared and the submit control is enabled provided a
\* filename is present.
C17_InvalidTextDisablesSubmit ==
    /\ [](InvalidText => (error # NoError /\ ImportSubmitDisabled))
    /\ [][(TextareaChange /\ ValidJSON(sessionData'))
             => /\ error' = NoError
                /\ (~Blank(filename) /\ ~importLoading)
                      => ~ImportSubmitDisabled']_importVars

\* C17 amended: while the session text is non-blank and not valid JSON the
\* inline error is set, and a submit in that state issues no call; the
\* submit control itself is disabled only while loading or while the text
\* or the filename is blank.  Once the text is valid JSON the error is
\* cleared and the control is enabled provided a filename is present and
\* no import is pending.
C17_InvalidTextSetsErrorOnly ==
    /\ [](InvalidText => error # NoError)
    /\ []((InvalidText /\ ~Blank(filename) /\ ~importLoading)
             => ~ImportSubmitDisabled)
    /\ [][(InvalidText /\ ImportHandleSubmit)
             => UNCHANGED importCalls]_importVars
    /\ [][(TextareaChange /\ ValidJSON(sessionData'))
             => /\ error' = NoError
                /\ (~Blank(filename) /\ ~importLoading)
                      => ~ImportSubmitDisabled']_importVars

\* C17 witness: "{" pasted with a filename present: the error is shown and
\* the submit control is enabled.
C17_Witness ==
    /\ importIsOpen /\ inputMethod = "paste"
    /\ sessionData = <<"{">>
    /\ filename = <<"a">>
    /\ error = "Invalid JSON format. Please check your pasted data."
    /\ ~ImportSubmitDisabled

\* The timers armed by a step, and the caller notifications it made.
TimersArmed == {t \in BagToSet(importTimers') :
                   CopiesIn(t, importTimers') > CopiesIn(t, importTimers)}

Notified(type) ==
    \E i \in 1..Len(importCallbacks') :
       importCallbacks'[i].fn = "onSuccess" /\ importCallbacks'[i].type = type

FormReset ==
    /\ sessionData = <<>> /\ filename = <<>>
    /\ error = NoError /\ ~success /\ importDetails = NoDetails

\* C18 as stated: a failed import shows the error inline, and in the step
\* that later notifies the caller of the error the modal is still open with
\* the error and the user's input in place.
C18_FailureNotifiesWithModalOpen ==
    /\ [][(\E t \in TimersArmed : t.type = "error")
             => (error' # NoError /\ UNCHANGED <<sessionData, filename>>)]_importVars
    /\ [][Notified("error")
             => /\ importIsOpen'
                /\ error' # NoError
                /\ UNCHANGED <<sessionData, filename>>]_importVars

\* C18 amended: a failed import shows the backend's error (or the generic
\* text) inline, leaves the modal and the user's input as they are, calls
\* nothing on the caller and arms one timer of 3 seconds; when that timer
\* fires, the modal is first closed and reset and the caller is then
\* notified once with that error and type "error".
C18_FailureShowsErrorThenClosesAndNotifies ==
    /\ [][(\E t \in TimersArmed : t.type = "error")
             => /\ error' # NoError
                /\ importTimers' = importTimers (+)
                      SetToBag({[delay |-> 3000, message |-> <<error'>>,
                                 type |-> "error"]})
                /\ importCallbacks' = <<>>
                /\ ~importLoading'
                /\ UNCHANGED <<importIsOpen, sessionData, filename>>]_importVars
    /\ [][Notified("error")
             => /\ \E t \in BagToSet(importTimers) :
                      /\ t.type = "error"
                      /\ importTimers' = importTimers (-) SetToBag({t})
                      /\ importCallbacks' =
                            <<OnClose, OnSuccess(t.message, "error")>>
                /\ ~importIsOpen'
                /\ FormReset']_importVars

\* C18 witness: the timer of a failed import has fired on an open modal that
\* showed the backend's error: the modal is closed and empty, the caller
\* notified.
C18_Witness ==
    /\ importCallbacks =
          <<OnClose, OnSuccess(<<"Invalid session file">>, "error")>>
    /\ ~importIsOpen
    /\ FormReset
    /\ importTimers = EmptyBag

\* C19: a successful import first sets the detail panel state (success
\* true, importDetails set) and arms one timer of 1.5 seconds whose message
\* ends "New account created." iff account_created and "Account updated."
\* otherwise; when the timer fires the modal is closed and reset and the
\* caller is then notified once, with that message and type "success".
C19_SuccessShowsDetailsThenClosesAndNotifies ==
    /\ [][(\E t \in TimersArmed : t.type = "success")
             => /\ success' /\ importDetails' # NoDetails
                /\ importCallbacks' = <<>>
                /\ UNCHANGED importIsOpen
                /\ \E t \in TimersArmed :
                      /\ importTimers' = importTimers (+) SetToBag({t})
                      /\ t.delay = 1500
                      /\ t.message[Len(t.message)] =
                            IF importDetails'[1].account_created
                            THEN "New account created."
                            ELSE "Account updated."]_importVars
    /\ [][Notified("success")
             => /\ \E t \in BagToSet(importTimers) :
                      /\ t.type = "success"
                      /\ importTimers' = importTimers (-) SetToBag({t})
                      /\ importCallbacks' =
                            <<OnClose, OnSuccess(t.message, "success")>>
                /\ ~importIsOpen'
                /\ FormReset']_importVars

\* C19 witness: the timer of an import that updated an account has fired.
C19_Witness ==
    /\ Len(importCallbacks) = 2
    /\ importCallbacks[1] = OnClose
    /\ importCallbacks[2].type = "success"
    /\ importCallbacks[2].message[4] = "Account updated."
    /\ ~importIsOpen
    /\ FormReset

\* The timer armed by a failed import fires.
FailureTimerFires ==
    \E timer \in BagToSet(importTimers) :
       /\ timer.type = "error"
       /\ importTimers' = importTimers (-) SetToBag({timer})

\* C28: the delayed callback of a failed import does not interfere with a
\* later submit: when it fires, no later import call is in flight and no
\* later import's success is on display, so that it closes and resets neither.
C28_FailureTimerSparesLaterSubmit ==
    [][FailureTimerFires => importCalls = EmptyBag /\ ~success]_vars

\* What the modal holds of a file once its read has completed: its name
\* without the extension, and its content if that is JSON.
StoredOf(file) ==
    [filename |-> nameWithoutExt(file.name),
     sessionData |-> IF JSONParse(file.content).ok THEN file.content ELSE <<>>]

\* C29: once the file reads have completed, in whatever order, the stored
\* filename and the stored session data are those of the most recently
\* selected file (no session data if its content is not JSON).
C29_FilenameAndDataFromLastFile ==
    (lastFile # Absent /\ fileReads = EmptyBag)
       => /\ filename = StoredOf(lastFile[1]).filename
          /\ sessionData = StoredOf(lastFile[1]).sessionData

NoUrl(url) == url = Absent \/ url[1] = ""

\* The response the claim prescribes for a url parameter and an upstream
\* outcome (an empty content-type header counts as an absent one).
Prescribed(url, up) ==
    IF NoUrl(url)
    THEN NextResponse("Missing image URL", 400, Absent, Absent)
    ELSE IF up.thrown \/ (up.status \in 200..299 /\ up.bodyFails)
    THEN NextResponse("Failed to load image", 500, Absent, Absent)
    ELSE IF up.status \notin 200..299
    THEN NextResponse("Failed to fetch image", up.status, Absent, Absent)
    ELSE NextResponse(up.body, 200,
            IF up.contentType \in {Absent, Present("")}
            THEN Present("image/jpeg")
            ELSE up.contentType,
            Present("public, max-age=31536000, immutable"))

\* C20: every request gets exactly one response and makes at most one
\* upstream fetch (none without a url); the response is 400 "Missing image
\* URL" without a url, the upstream status with a fixed text when upstream
\* is not 2xx, 200 with the upstream bytes, the upstream content-type
\* (image/jpeg when there is none) and the immutable Cache-Control when
\* upstream is 2xx, and 500 when the fetch or the body read throws.
C20_ProxyAnswersOncePerRequest ==
    \A r \in 1..MaxRequests :
       /\ proxy[r].fetches <= 1
       /\ Len(proxy[r].responses) <= 1
       /\ proxy[r].stage = "fetching" =>
             (proxy[r].fetches = 1 /\ proxy[r].responses = <<>>)
       /\ proxy[r].stage = "done" =>
             /\ proxy[r].responses =
                   <<Prescribed(proxy[r].url, proxy[r].upstream)>>
             /\ proxy[r].fetches = IF NoUrl(proxy[r].url) THEN 0 ELSE 1

\* C20 witness: one request relayed a 2xx upstream image with its own
\* content-type, another relayed an upstream 404.
C20_Witness ==
    /\ proxy[1].stage = "done"
    /\ proxy[1].responses[1].status = 200
    /\ proxy[1].responses[1].body = "bytes-2"
    /\ proxy[1].responses[1].contentType = Present("image/png")
    /\ proxy[2].stage = "done"
    /\ proxy[2].responses[1].status = 404

(***************************************************************************)
(* Properties of selectAll / handleSelectAllAccounts, checked under        *)
(* SpecSelectAll.                                                          *)
(***************************************************************************)
\* C10 as stated: from every starting selection (empty, partial or full),
\* selectAll / handleSelectAllAccounts invoked twice in a row returns the
\* selection set to the one it started from.
C10_SelectAllTwiceRestoresSelection ==
    saApplied = 2 => Range(saSelected) = Range(saStart)

\* C10 amended: invoked twice in a row, selectAll / handleSelectAllAccounts
\* returns the selection set to the one it started from when that selection
\* was empty or held every loaded account; from a partial selection the two
\* invocations leave the selection empty.
C10_SelectAllTwiceFromEmptyOrFull ==
    saApplied = 2 =>
        IF Range(saStart) = {} \/ Range(saStart) = Range(saAccounts)
        THEN Range(saSelected) = Range(saStart)
        ELSE saSelected = <<>>

\* C10 witness: in the Bulk Upload modal, three accounts all selected in an
\* order other than the list's, select-all invoked twice.
C10_Witness ==
    /\ saComponent = "bulk"
    /\ saApplied = 2
    /\ Len(saAccounts) = 3
    /\ Len(saStart) = 3
    /\ saStart # saAccounts
    /\ Range(saSelected) = Range(saStart)

(***************************************************************************)
(* Properties of toggleAccount / handleAccountToggle, checked under        *)
(* SpecToggle.                                                             *)
(***************************************************************************)
SymDiff(A, B) == (A \ B) \cup (B \ A)

\* C11: for every selection and every account id, one toggle changes the
\* membership of that id and of no other id, and toggling the same id twice
\* in a row leaves the selected set equal to what it was before.
C11_ToggleTwiceRestoresSet ==
    /\ tgApplied >= 1 => SymDiff(Range(tgMid), Range(tgStart)) = {tgId}
    /\ tgApplied = 2 => Range(tgSelected) = Range(tgStart)

\* C11 witness: on the Renewal page, account 2 toggled twice in a selection
\* <<2, 1>> that held it: deselected, then selected again at the end.
C11_Witness ==
    /\ tgComponent = "renew"
    /\ tgApplied = 2
    /\ tgStart = <<2, 1>>
    /\ tgId = 2
    /\ tgMid = <<1>>
    /\ tgSelected = <<1, 2>>

====
